---- MODULE Spec2Model ----
(***************************************************************************)
(* comp-hunt-starter: the ingestion pipeline of scripts/pull-feeds.mjs.    *)
(*                                                                         *)
(* The repository holds three revisions of the script:                     *)
(*   R3  src/unnamed/part_002 lines 1-711    (resolvers, two-pass dedupe)  *)
(*   R2  src/scripts/pull-feeds.mjs          (normalize, dedupe, freshness) *)
(*   R1  src/unnamed/part_002 lines 713-1075 (loadSources, link dedupe)    *)
(*                                                                         *)
(* Time is counted in minutes.  Strings the code treats as text (titles)   *)
(* are sequences of one-character strings; a link is a record holding the  *)
(* parts of the string that the WHATWG URL parser and cleanUrl tell apart. *)
(***************************************************************************)
EXTENDS Integers, Sequences, FiniteSets, TLC

\* ------------------------------------------------------------------ bounds
MaxItems == 3        \* longest list handed to dedupe in SpecStages and SpecDedupe
MaxTicks == 2        \* how often the clock advances during one behaviour
MaxPoolItems == 6    \* longest list handed to the worker pools in SpecPool
MaxFeedEntries == 1  \* most entries of a feed document

\* --------------------------------------------------------------- constants
NULL == -1           \* JavaScript null / undefined for a timestamp
FUTURE_CREATEDAT_SKEW_MIN == 10
StartTime == 1000000 \* Date.now() when the run starts, in minutes

Range(s) == {s[k] : k \in DOMAIN s}
SeqsUpTo(S, n) == UNION {[1..k -> S] : k \in 0..n}

\* ------------------------------------------------------------------- text
UpperChars == <<"A","B","C","D","E","F","G","H","I","J","K","L","M",
                "N","O","P","Q","R","S","T","U","V","W","X","Y","Z">>
LowerChars == <<"a","b","c","d","e","f","g","h","i","j","k","l","m",
                "n","o","p","q","r","s","t","u","v","w","x","y","z">>

\* String.prototype.toLowerCase on one character
LowerChar(c) ==
  IF \E k \in DOMAIN UpperChars : UpperChars[k] = c
    THEN LowerChars[CHOOSE k \in DOMAIN UpperChars : UpperChars[k] = c]
    ELSE c

\* String.prototype.toLowerCase on a text
toLowerCase(t) == [k \in DOMAIN t |-> LowerChar(t[k])]

\* toLowerCase on a source label: host names are lower case already, the
\* configured labels of the model are listed
toLowerCaseLabel(s) ==
  CASE s = "NZMCD" -> "nzmcd"
    [] s = "Brand" -> "brand"
    [] OTHER -> s

RECURSIVE collapseWs(_, _)
\* s.replace(/\s+/g, " ") then trim(): runs of blanks become one blank, and
\* no blank starts or ends the result.  prevBlank: the last character kept
\* was a blank, or nothing was kept yet
collapseWs(t, prevBlank) ==
  IF t = <<>> THEN <<>>
  ELSE IF Head(t) = " "
    THEN IF prevBlank THEN collapseWs(Tail(t), TRUE)
         ELSE LET rest == collapseWs(Tail(t), TRUE)
              IN IF rest = <<>> THEN <<>> ELSE <<" ">> \o rest
    ELSE <<Head(t)>> \o collapseWs(Tail(t), FALSE)

collapse(t) == collapseWs(t, TRUE)

\* ------------------------------------------------------------------ links
\* kind "empty": the empty string; "opaque": a non-empty string that
\* new URL() rejects; "url": an absolute http(s) URL.
\*   www, dom : the host is (www ? "www." : "") + dom
\*   upper    : the string spells the host with an upper-case letter
\*   path     : the non-empty path segments
\*   slashes  : the "/" characters ending the pathname ("/" alone: 1)
\*   track    : the query holds a tracking parameter (utm_*, gclid, ref, ...)
\*   frag     : the string has a #fragment
EmptyLink ==
  [kind |-> "empty", www |-> FALSE, dom |-> "", upper |-> FALSE,
   path |-> <<>>, slashes |-> 0, track |-> FALSE, frag |-> FALSE]

OpaqueLink(s) == [EmptyLink EXCEPT !.kind = "opaque", !.dom = s]

Url(www, dom, path) ==
  [kind |-> "url", www |-> www, dom |-> dom, upper |-> FALSE,
   path |-> path, slashes |-> IF path = <<>> THEN 1 ELSE 0,
   track |-> FALSE, frag |-> FALSE]

\* a link is truthy in JavaScript unless it is the empty string
Truthy(link) == link.kind # "empty"

\* new URL(u) succeeds
Parses(link) == link.kind = "url"

\* url.pathname.length > 1 && url.pathname.endsWith("/")
TrailingSlash(u) == u.slashes >= 1 /\ (u.path # <<>> \/ u.slashes > 1)

\* cleanUrl: drop the fragment, lower-case the host, delete the tracking
\* parameters, remove ONE trailing slash of a non-root path
cleanUrl(u) ==
  IF Parses(u)
    THEN [u EXCEPT !.frag = FALSE, !.upper = FALSE, !.track = FALSE,
                   !.slashes = IF TrailingSlash(u) THEN u.slashes - 1 ELSE u.slashes]
    ELSE u

\* sourceFromLink (R3): the host name without a leading "www.", "" on failure
sourceFromLink(u) == IF Parses(u) THEN u.dom ELSE ""

\* sourceFromLink (R2): "unknown" on failure
sourceFromLink_R2(u) == IF Parses(u) THEN u.dom ELSE "unknown"

\* host(u): the lower-cased host name, "" on failure
host(u) == IF Parses(u) THEN [www |-> u.www, dom |-> u.dom] ELSE [www |-> FALSE, dom |-> ""]

Host(www, dom) == [www |-> www, dom |-> dom]

KNOWN_AGGREGATORS ==
  { Host(w, d) : w \in BOOLEAN, d \in {"contest.co.nz", "competitions.co.nz", "cheapies.nz"} }

\* ------------------------------------------------------------- timestamps
\* days(n) in minutes
days(n) == n * 24 * 60

\* clampFutureISO (R3): Math.min(t, now + skew)
clampFutureISO(t, clock) ==
  IF t = NULL THEN NULL
  ELSE IF t < clock + FUTURE_CREATEDAT_SKEW_MIN THEN t ELSE clock + FUTURE_CREATEDAT_SKEW_MIN

\* clampFutureISO (R2): t > now + skew ? now : t
clampFutureISO_R2(t, clock) ==
  IF t = NULL THEN NULL
  ELSE IF t > clock + FUTURE_CREATEDAT_SKEW_MIN THEN clock ELSE t

\* ---------------------------------------------------------------- records
\* a record as parseRSSFeed and crawlSite hand it to main
RawRecord(title, link, source, createdAt, deadline) ==
  [title |-> title, link |-> link, source |-> source,
   createdAt |-> createdAt, deadline |-> deadline]

\* sha1(`${title}|${source}`), taken to be free of collisions
Sha1Id(title, source) == [link |-> EmptyLink, title |-> title, source |-> source]
LinkId(link) == [link |-> link, title |-> <<>>, source |-> ""]

\* normalizeItem.  A raw record's createdAt and deadline are NULL when the
\* field is absent or Date.parse rejects it
normalizeItem(raw, clock, rev) ==
  LET link == cleanUrl(raw.link)
      title == collapse(raw.title)
      source == IF raw.source # "" THEN raw.source
                ELSE IF rev = "R3" THEN sourceFromLink(link) ELSE sourceFromLink_R2(link)
      createdAt == IF rev = "R3" THEN clampFutureISO(raw.createdAt, clock)
                   ELSE clampFutureISO_R2(raw.createdAt, clock)
  IN [id |-> IF Truthy(link) THEN LinkId(link) ELSE Sha1Id(title, source),
      title |-> title, link |-> link, source |-> source,
      createdAt |-> createdAt, deadline |-> raw.deadline]

\* --------------------------------------------------------------- settings
\* SETTINGS of each revision
DROP_PAST_DEADLINES(rev) == rev = "R2"
MAX_ITEM_AGE_DAYS(rev) == IF rev = "R3" THEN 365 ELSE 400

\* -------------------------------------------------------------- freshness
isPast(deadline, clock) == deadline # NULL /\ deadline < clock

isVeryOld(createdAt, clock, rev) ==
  /\ createdAt # NULL
  /\ MAX_ITEM_AGE_DAYS(rev) # 0
  /\ createdAt < clock - days(MAX_ITEM_AGE_DAYS(rev))

freshnessFilterNoDeadlineCheck(item, clock, rev) ==
  ~(item.deadline = NULL /\ isVeryOld(item.createdAt, clock, rev))

freshnessFilterAgeFirst(item, clock, rev) ==
  IF isVeryOld(item.createdAt, clock, rev) THEN FALSE
  ELSE ~(DROP_PAST_DEADLINES(rev) /\ isPast(item.deadline, clock))

\* freshnessFilter: TRUE when the item is kept
freshnessFilter(item, clock, rev) ==
  LET dlPast == isPast(item.deadline, clock)
      veryOld == isVeryOld(item.createdAt, clock, rev)
  IN IF DROP_PAST_DEADLINES(rev) /\ dlPast THEN FALSE
     ELSE IF item.deadline = NULL /\ veryOld THEN FALSE
     ELSE TRUE

\* ----------------------------------------------------------------- dedupe
\* A JavaScript Map as the sequence of its [key, val] entries in insertion
\* order; set() on a present key replaces the value in place
MapHas(m, key) == \E k \in DOMAIN m : m[k].key = key
MapGet(m, key) == m[CHOOSE k \in DOMAIN m : m[k].key = key].val
MapSet(m, key, val) ==
  IF MapHas(m, key)
    THEN [k \in DOMAIN m |-> IF m[k].key = key THEN [key |-> key, val |-> val] ELSE m[k]]
    ELSE Append(m, [key |-> key, val |-> val])
MapValues(m) == [k \in DOMAIN m |-> m[k].val]

\* scorePrimary (R3), times 1000:  (createdAt ? 2 : 0) + title.length / 1000
scorePrimary(x) == (IF x.createdAt # NULL THEN 2000 ELSE 0) + Len(x.title)

\* score (R2), times 1000:  (deadline ? 3 : 0) + (createdAt ? 2 : 0) + title.length / 1000
score_R2(x) ==
  (IF x.deadline # NULL THEN 3000 ELSE 0) + (IF x.createdAt # NULL THEN 2000 ELSE 0) + Len(x.title)

scoreOf(x, rev) == IF rev = "R3" THEN scorePrimary(x) ELSE score_R2(x)

\* key2 / sig: `${title.toLowerCase()}|${source.toLowerCase()}`
key2(x) == <<toLowerCase(x.title), toLowerCaseLabel(x.source)>>

RECURSIVE byLinkPass(_, _, _)
\* pass 1: for (const it of items) { if (!it.link) continue; ... byLink.set(key, ...) }
byLinkPass(items, m, rev) ==
  IF items = <<>> THEN m
  ELSE LET it == Head(items)
           key == cleanUrl(it.link)
       IN IF ~Truthy(it.link) THEN byLinkPass(Tail(items), m, rev)
          ELSE LET pick == IF ~MapHas(m, key) THEN it
                           ELSE IF scoreOf(it, rev) >= scoreOf(MapGet(m, key), rev) THEN it
                           ELSE MapGet(m, key)
               IN byLinkPass(Tail(items), MapSet(m, key, pick), rev)

RECURSIVE map2Pass(_, _)
\* pass 2 (R3): for (const it of out) { ... map2.set(k, pick) }
map2Pass(items, m) ==
  IF items = <<>> THEN m
  ELSE LET it == Head(items)
           k == key2(it)
           pick == IF ~MapHas(m, k) THEN it
                   ELSE IF scorePrimary(it) >= scorePrimary(MapGet(m, k)) THEN it
                   ELSE MapGet(m, k)
       IN map2Pass(Tail(items), MapSet(m, k, pick))

\* dedupe (R3)
dedupe(items) == MapValues(map2Pass(MapValues(byLinkPass(items, <<>>, "R3")), <<>>))

RECURSIVE noLinkPass(_, _, _)
\* R2: for (const it of noLinks) { if (!seenSig.has(s)) { seenSig.add(s); final.push(it); } }
noLinkPass(noLinks, seenSig, final) ==
  IF noLinks = <<>> THEN final
  ELSE LET it == Head(noLinks)
       IN IF key2(it) \in seenSig THEN noLinkPass(Tail(noLinks), seenSig, final)
          ELSE noLinkPass(Tail(noLinks), seenSig \cup {key2(it)}, Append(final, it))

\* dedupe (R2)
dedupe_R2(items) ==
  LET withLinks == MapValues(byLinkPass(items, <<>>, "R2"))
      noLinks == SelectSeq(items, LAMBDA x : ~Truthy(x.link))
  IN noLinkPass(noLinks, {key2(withLinks[k]) : k \in DOMAIN withLinks}, withLinks)

dedupeOf(items, rev) == IF rev = "R3" THEN dedupe(items) ELSE dedupe_R2(items)

\* ------------------------------------------------------------- aggregator
ORIG_CONCURRENCY == 4
CANON_CONCURRENCY == 5
THROTTLE_MS == 250

IGNORE_HOSTS ==
  { Host(FALSE, "facebook.com"), Host(TRUE, "facebook.com"), Host(FALSE, "m.facebook.com"),
    Host(FALSE, "instagram.com"), Host(TRUE, "instagram.com"),
    Host(FALSE, "x.com"), Host(FALSE, "twitter.com"), Host(TRUE, "twitter.com"),
    Host(FALSE, "tiktok.com"), Host(TRUE, "tiktok.com"),
    Host(FALSE, "youtube.com"), Host(TRUE, "youtube.com"), Host(FALSE, "youtu.be"),
    Host(FALSE, "linkedin.com"), Host(TRUE, "linkedin.com"),
    Host(FALSE, "sharethis.com"), Host(FALSE, "addthis.com"),
    Host(FALSE, "mailto"), Host(FALSE, "tel"), Host(FALSE, "javascript") }

NoHost == Host(FALSE, "")

isIgnoredHost(h) == h = NoHost \/ h \in IGNORE_HOSTS

\* /bit\.ly|t\.co|tinyurl|lnkd\.in|goo\.gl|ow\.ly|fb\.me|linktr\.ee/.test(h), on
\* the host names of the model
IsShortener(h) ==
  h.dom \in {"bit.ly", "t.co", "tinyurl.com", "lnkd.in", "goo.gl", "ow.ly", "fb.me",
              "linktr.ee", "contest.co.nz"}

\* an anchor's text is told apart by what scoreAnchorText looks at:
\*   cta   : /(^|\b)(enter|...|official|website|apply|details|terms)(\b|!)/
\*   click : /click|read more|more info/
\*   short : 1 to 60 characters
scoreAnchorText(txt) ==
  (IF txt.cta THEN 5 ELSE 0) + (IF txt.click THEN 2 ELSE 0) + (IF txt.short THEN 1 ELSE 0)

Anchor(href, cta, click, short) ==
  [href |-> href, text |-> [cta |-> cta, click |-> click, short |-> short]]

RECURSIVE bestAnchor(_, _, _, _)
\* the loop over $("a[href]"): the first anchor of the highest score among
\* those leading off the page's host to a host that is not ignored
bestAnchor(anchors, baseHost, best, bestScore) ==
  IF anchors = <<>> THEN best
  ELSE LET a == Head(anchors)
           abs == IF Parses(a.href) THEN cleanUrl(a.href) ELSE a.href
           h == host(abs)
           sc == scoreAnchorText(a.text) + (IF IsShortener(h) THEN 0 ELSE 1)
       IN IF ~Parses(a.href) \/ h = NoHost \/ h = baseHost \/ isIgnoredHost(h)
            THEN bestAnchor(Tail(anchors), baseHost, best, bestScore)
          ELSE IF sc > bestScore THEN bestAnchor(Tail(anchors), baseHost, abs, sc)
          ELSE bestAnchor(Tail(anchors), baseHost, best, bestScore)

\* extractOriginalFromContest: the best anchor, else the first URL of the
\* body text that leads off the page's host; EmptyLink for null
extractOriginalFromContest(page, pageUrl) ==
  LET baseHost == host(pageUrl)
      best == bestAnchor(page.anchors, baseHost, EmptyLink, -1)
      candidates == SelectSeq(page.text,
                      LAMBDA u : host(u) # NoHost /\ host(u) # baseHost /\ ~isIgnoredHost(host(u)))
  IN IF Truthy(best) THEN best
     ELSE IF candidates # <<>> THEN cleanUrl(candidates[1])
     ELSE EmptyLink

\* extractOriginalFromCompetitionsNZ, extractOriginalFromCheapies: anchors only
extractOriginalFromAnchors(page, pageUrl) ==
  bestAnchor(page.anchors, host(pageUrl), EmptyLink, -1)

\* a response: ok (the fetch and the reading of its body succeeded), status
\* (the HTTP status), url (the URL after redirects), html (content-type),
\* cand (the declared canonical, EmptyLink for none), anchors and text (the
\* page)
Response(ok, url, html, cand, anchors, text) ==
  [ok |-> ok, status |-> 200, url |-> url, html |-> html, cand |-> cand,
   anchors |-> anchors, text |-> text]

\* the same page sent with the status 404
NotFound(resp) == [resp EXCEPT !.status = 404]

\* res.ok: the status is in the range 200-299
IsSuccess(resp) == resp.status \in 200..299

FetchFailed == [Response(FALSE, EmptyLink, FALSE, EmptyLink, <<>>, <<>>) EXCEPT !.status = 0]

\* findOriginalForAggregator: EmptyLink for null
findOriginalForAggregator(link, resp) ==
  LET h == host(link)
  IN IF h \notin KNOWN_AGGREGATORS THEN EmptyLink
     ELSE IF ~resp.ok THEN EmptyLink
     ELSE LET original == IF h.dom = "contest.co.nz" THEN extractOriginalFromContest(resp, link)
                          ELSE extractOriginalFromAnchors(resp, link)
          IN IF Truthy(original) THEN cleanUrl(original) ELSE EmptyLink

\* -------------------------------------------------------------- canonical
\* looksLikeBadCanonical: a root or one-segment path on another host
looksLikeBadCanonical(finalUrl, candidate) ==
  IF ~Parses(finalUrl) \/ ~Parses(candidate) THEN TRUE
  ELSE Len(candidate.path) <= 1 /\ host(finalUrl) # host(candidate)

resolveCanonicalOnceKeepsFinal(link, resp) ==
  IF ~resp.ok \/ ~Parses(link) THEN cleanUrl(link)
  ELSE cleanUrl(IF Truthy(resp.url) THEN resp.url ELSE link)

\* resolveCanonicalOnce: the primary link
resolveCanonicalOnce(link, resp) ==
  IF ~resp.ok \/ ~Parses(link) THEN cleanUrl(link)
  ELSE LET finalUrl == cleanUrl(IF Truthy(resp.url) THEN resp.url ELSE link)
       IN IF ~resp.html THEN finalUrl
          ELSE IF ~Truthy(resp.cand) THEN finalUrl
          ELSE IF ~Parses(resp.cand) THEN cleanUrl(link)   \* new URL(cand, finalUrl) throws
          ELSE IF ~looksLikeBadCanonical(finalUrl, cleanUrl(resp.cand)) THEN cleanUrl(resp.cand)
          ELSE finalUrl

withLinkAndId(it, primary) ==
  [it EXCEPT !.id = LinkId(primary), !.link = primary,
             !.source = IF sourceFromLink(primary) # "" THEN sourceFromLink(primary)
                        ELSE it.source]

\* what canonicalizeAll stores for a record whose lookup gave `primary`:
\* { ...it, link: primary, source: sourceFromLink(primary) || it.source }
withLink(it, primary) ==
  [it EXCEPT !.link = primary,
             !.source = IF sourceFromLink(primary) # "" THEN sourceFromLink(primary)
                        ELSE it.source]

\* ------------------------------------------------------- the model's web
BrandOffer == Url(FALSE, "brand.example", <<"offer">>)
BrandOther == Url(FALSE, "brand.example", <<"other">>)
BrandWinOffer == Url(TRUE, "brand.example", <<"win", "offer">>)
ShopDeal == Url(TRUE, "shop.example", <<"deal">>)
ShopRoot == Url(FALSE, "shop.example", <<>>)
ShopWin == Url(TRUE, "shop.example", <<"win">>)
ShopWinA == Url(TRUE, "shop.example", <<"win", "a">>)
ShopWinTerms == Url(TRUE, "shop.example", <<"win", "terms">>)
ContestPage == Url(TRUE, "contest.co.nz", <<"c", "1">>)
CheapiesPage == Url(FALSE, "cheapies.nz", <<"node", "7">>)
ContestTerms == Url(FALSE, "contest.co.nz", <<"terms">>)
FacebookPage == Url(TRUE, "facebook.com", <<"brand">>)

\* what an aggregator page may answer
AggResponse(kind) ==
  CASE kind = "fail" -> FetchFailed
    [] kind = "bare" -> Response(TRUE, EmptyLink, TRUE, EmptyLink, <<>>, <<>>)
    [] kind = "anchor" ->
         Response(TRUE, EmptyLink, TRUE, EmptyLink,
                  << Anchor(FacebookPage, TRUE, FALSE, TRUE),
                     Anchor([BrandOffer EXCEPT !.track = TRUE], TRUE, FALSE, TRUE) >>, <<>>)
    [] kind = "text" ->
         Response(TRUE, EmptyLink, TRUE, EmptyLink,
                  << Anchor(FacebookPage, FALSE, FALSE, TRUE) >>, << FacebookPage, ShopDeal >>)
    \* the aggregator's error page, which links to a partner
    [] kind = "error" ->
         NotFound(Response(TRUE, EmptyLink, TRUE, EmptyLink,
                           << Anchor(ShopDeal, TRUE, FALSE, TRUE) >>, <<>>))
    \* an aggregator page whose only link leads to the aggregator's terms,
    \* spelled without the "www."
    [] kind = "self" ->
         Response(TRUE, EmptyLink, TRUE, EmptyLink,
                  << Anchor(ContestTerms, TRUE, FALSE, TRUE) >>, <<>>)

\* what the page behind `link` may answer to the canonical lookup
CanonResponse(kind, link) ==
  CASE kind = "fail" -> FetchFailed
    [] kind = "plain" -> Response(TRUE, link, FALSE, EmptyLink, <<>>, <<>>)
    [] kind = "canonical" -> Response(TRUE, link, TRUE, BrandWinOffer, <<>>, <<>>)
    [] kind = "redirect" -> Response(TRUE, BrandOffer, TRUE, ShopRoot, <<>>, <<>>)
    \* redirected to a page whose canonical href new URL() rejects
    [] kind = "broken" -> Response(TRUE, BrandOther, TRUE, OpaqueLink("http://"), <<>>, <<>>)
    \* the site's error page, which declares a canonical of its own
    [] kind = "error" -> NotFound(Response(TRUE, link, TRUE, BrandWinOffer, <<>>, <<>>))

AggKinds == {"fail", "bare", "anchor", "text", "error", "self"}
CanonKinds == {"fail", "plain", "canonical", "redirect", "broken", "error"}
\* "ok": a feed, an index page or a detail page arrives; "stall": the
\* server sends the headers of its answer and never ends the body
ResponseKinds == AggKinds \cup CanonKinds \cup {"ok", "stall"}

\* the answers of one run: any fetch may fail or succeed, an aggregator page
\* that arrives is of one kind and a brand page that arrives is of one kind;
\* or the servers answer with error pages and bodies that never end
WebProfiles ==
  { {"fail", "ok", a, c} : a \in AggKinds \ {"fail", "error", "self"},
                           c \in CanonKinds \ {"fail", "error"} }
    \cup { {"fail", "ok", "error", "stall"} }

\* ================================================================== state
VARIABLES
  revision,      \* which revision of the script runs: "R1", "R2" or "R3"
  pc,            \* where main() stands
  now,           \* Date.now(), in minutes
  ticks,         \* how often the clock advanced
  config,        \* sources.json as it stands on disk
  sources,       \* the parsed sources.json: [ok, rss, sites]
  netCalls,      \* fetch() calls issued so far
  exitCode,      \* -1 while running, then the process's exit code
  feedIdx,       \* main's loop over rss
  siteIdx,       \* main's loop over sites
  crawl,         \* crawlSite's locals while a site is crawled
  raw,           \* rssResults followed by siteResults
  fetchLog,      \* history: every feed, index page and detail page fetched so far
  normalized,    \* raw.map(normalizeItem)
  cursor,        \* the pool's shared index i
  results,       \* the pool's results array
  workers,       \* the pool's workers: [pc, idx]
  claims,        \* history: the workers that claimed each index
  writes,        \* history: how often each results slot was assigned, and by whom
  timers,        \* the workers asleep, in the order their timers were set
  upgraded,      \* what upgradeAggregatorsToOriginals returned
  canonicalized, \* what canonicalizeAll returned
  fetched,       \* history: per pool and index, what the lookup answered
  deduped,       \* dedupe's result
  filterPos,     \* Array.prototype.filter's position in deduped
  filtered,      \* the records freshnessFilter admitted so far
  keptAt,        \* history: Date.now() when each record of filtered was admitted
  catalog,       \* the content of public/feeds.json
  catalogWrites, \* how often public/feeds.json was written
  health,        \* the counts of public/ingestion.json
  healthWrites,  \* how often public/ingestion.json was written
  web,           \* the kinds of answer the servers give in this behaviour
  permuted,      \* SpecDedupe: a permutation of dedupe's input
  dedupedPerm,   \* SpecDedupe: dedupe's result on permuted
  renormalized,  \* SpecNormalize: normalizeItem applied to its own output
  normalizedAgain \* SpecNormalize: a later call of normalizeItem on the same input

clockVars == <<now, ticks>>
configVars == <<revision, config, sources, web>>
fetchVars == <<feedIdx, siteIdx, crawl, raw, fetchLog>>
poolVars == <<cursor, results, workers, claims, writes, timers, fetched>>
stageVars == <<normalized, upgraded, canonicalized>>
filterVars == <<deduped, filterPos, filtered, keptAt>>
outVars == <<catalog, catalogWrites, health, healthWrites>>
permVars == <<permuted, dedupedPerm>>
normVars == <<renormalized, normalizedAgain>>
vars == <<pc, netCalls, exitCode, clockVars, configVars, fetchVars, poolVars,
          stageVars, filterVars, outVars, permVars, normVars>>

NoSources == [ok |-> FALSE, rss |-> <<>>, sites |-> <<>>]
NoCrawl == [phase |-> "idle", page |-> 1, hrefs |-> <<>>, pos |-> 1, items |-> <<>>]
NoneFetched == [upgrade |-> <<>>, canon |-> <<>>]
NoHealth == [raw |-> 0, normalized |-> 0, upgraded |-> 0, canonicalized |-> 0,
             deduped |-> 0, kept |-> 0, perSource |-> <<>>]

\* the next step of main reads Date.now()
ReadsClock ==
  \/ pc \in {"feeds", "sites"} /\ revision = "R3"
  \/ pc \in {"normalize", "first", "second"}
  \/ pc = "filter" /\ filterPos <= Len(deduped)

\* the clock advances between any two steps of the script; time that passes
\* before a step that does not read the clock is counted before the next
\* step that does
Tick ==
  /\ ticks < MaxTicks
  /\ exitCode = -1
  /\ ReadsClock
  /\ now' = now + 1
  /\ ticks' = ticks + 1
  /\ UNCHANGED <<pc, netCalls, exitCode, configVars, fetchVars, poolVars,
                 stageVars, filterVars, outVars, permVars, normVars>>

\* --------------------------------------------------- the two worker pools
NoRecord ==
  [id |-> LinkId(EmptyLink), title |-> <<>>, link |-> EmptyLink, source |-> "",
   createdAt |-> NULL, deadline |-> NULL]

\* a slot of new Array(n): empty until assigned
Hole == [filled |-> FALSE, val |-> NoRecord]
Filled(v) == [filled |-> TRUE, val |-> v]

NotCalled == [called |-> FALSE, resp |-> FetchFailed]
Called(resp) == [called |-> TRUE, resp |-> resp]

PoolSize(stage) == IF stage = "upgrade" THEN ORIG_CONCURRENCY ELSE CANON_CONCURRENCY

\* the list the running pool works on
PoolItems == IF pc = "upgrade" THEN normalized ELSE upgraded

\* whether the worker awaits a lookup for the item
needsLookup(stage, it) ==
  IF stage = "upgrade" THEN host(it.link) \in KNOWN_AGGREGATORS ELSE Truthy(it.link)

\* what the worker stores once the lookup has answered
\*   upgrade: orig ? { ...it, link: orig, source: sourceFromLink(orig) || it.source } : it
\*   canon:   { ...it, link: primary, source: sourceFromLink(primary) || it.source }
lookupResult(stage, it, resp) ==
  IF stage = "upgrade"
    THEN LET orig == findOriginalForAggregator(it.link, resp)
         IN IF Truthy(orig) THEN withLink(it, orig) ELSE it
    ELSE withLink(it, resolveCanonicalOnce(it.link, resp))

claimIndexNoAdvance(c) == [idx |-> c, next |-> c]

\* const idx = i++
claimIndex(c) == [idx |-> c, next |-> c + 1]

storeResultPush(res, idx, val) ==
  LET free == {k \in DOMAIN res : ~res[k].filled}
  IN IF free = {} THEN res
     ELSE [res EXCEPT ![CHOOSE k \in free : \A j \in free : k <= j] = Filled(val)]

\* results[idx] = val
storeResult(res, idx, val) == [res EXCEPT ![idx + 1] = Filled(val)]

\* One worker from the head of its loop to its next await, or to its break.
\* P holds the pool's shared state: [cursor, results, workers, claims, writes, timers, net]
RunWorker(P, w, stage, items) ==
  LET c == claimIndex(P.cursor)
      idx == c.idx
  IN IF idx >= Len(items)
       THEN [P EXCEPT !.cursor = c.next, !.workers[w] = [pc |-> "done", idx |-> 0]]
       ELSE LET it == items[idx + 1]
                P1 == [P EXCEPT !.cursor = c.next, !.claims[idx + 1] = Append(@, w)]
            IN IF needsLookup(stage, it)
                 THEN [P1 EXCEPT !.workers[w] = [pc |-> "fetch", idx |-> idx],
                                 !.net = @ + (IF Parses(it.link) THEN 1 ELSE 0)]
                 ELSE [P1 EXCEPT !.results = storeResult(@, idx, it),
                                 !.writes[idx + 1] = Append(@, w),
                                 !.workers[w] = [pc |-> "sleep", idx |-> idx],
                                 !.timers = Append(@, w)]

RECURSIVE StartWorkers(_, _, _, _)
\* Array.from({ length: N }, worker): the workers start one after the other,
\* each running to its first await
StartWorkers(P, w, stage, items) ==
  IF w > PoolSize(stage) THEN P
  ELSE StartWorkers(RunWorker(P, w, stage, items), w + 1, stage, items)

FreshPool(stage, items) ==
  [cursor |-> 0,
   results |-> [k \in DOMAIN items |-> Hole],
   workers |-> [w \in 1..PoolSize(stage) |-> [pc |-> "new", idx |-> 0]],
   claims |-> [k \in DOMAIN items |-> <<>>],
   writes |-> [k \in DOMAIN items |-> <<>>],
   timers |-> <<>>,
   net |-> 0]

ThisPool ==
  [cursor |-> cursor, results |-> results, workers |-> workers,
   claims |-> claims, writes |-> writes, timers |-> timers, net |-> 0]

\* the pool's variables take the values of P
SetPool(P) ==
  /\ cursor' = P.cursor
  /\ results' = P.results
  /\ workers' = P.workers
  /\ claims' = P.claims
  /\ writes' = P.writes
  /\ timers' = P.timers
  /\ netCalls' = netCalls + P.net

\* the call of upgradeAggregatorsToOriginals or canonicalizeAll up to its
\* await Promise.all
StartPool(stage, items) ==
  /\ SetPool(StartWorkers(FreshPool(stage, items), 1, stage, items))
  /\ fetched' = [fetched EXCEPT ![stage] = [k \in DOMAIN items |-> NotCalled]]

AllDone == \A w \in DOMAIN workers : workers[w].pc = "done"

\* the lookup a worker awaits answers: the worker stores its result, then
\* awaits sleep(THROTTLE_MS / 2)
LookupReturns(w) ==
  /\ pc \in {"upgrade", "canon"}
  /\ w \in DOMAIN workers
  /\ workers[w].pc = "fetch"
  /\ LET idx == workers[w].idx
         it == PoolItems[idx + 1]
         \* fetch() rejects a link that is no URL
         kinds == IF ~Parses(it.link) THEN {"fail"}
                  ELSE IF pc = "upgrade" THEN AggKinds ELSE CanonKinds
     IN \E kind \in web \cap kinds :
          LET resp == IF pc = "upgrade" THEN AggResponse(kind) ELSE CanonResponse(kind, it.link)
          IN /\ results' = storeResult(results, idx, lookupResult(pc, it, resp))
             /\ writes' = [writes EXCEPT ![idx + 1] = Append(@, w)]
             /\ fetched' = [fetched EXCEPT ![pc][idx + 1] = Called(resp)]
             /\ workers' = [workers EXCEPT ![w] = [pc |-> "sleep", idx |-> idx]]
             /\ timers' = Append(timers, w)
  /\ UNCHANGED <<pc, cursor, claims, netCalls, exitCode, clockVars, configVars, fetchVars,
                 stageVars, filterVars, outVars, permVars, normVars>>

\* a worker's sleep ends: it goes round its loop.  All sleeps last
\* THROTTLE_MS / 2, so the timers fire in the order they were set.
WorkerWakes(w) ==
  /\ pc \in {"upgrade", "canon"}
  /\ THROTTLE_MS > 0
  /\ timers # <<>>
  /\ w = Head(timers)
  /\ workers[w].pc = "sleep"
  /\ SetPool(RunWorker([ThisPool EXCEPT !.timers = Tail(@)], w, pc, PoolItems))
  /\ UNCHANGED <<pc, fetched, exitCode, clockVars, configVars, fetchVars,
                 stageVars, filterVars, outVars, permVars, normVars>>

\* the lookup a worker awaits got its headers, so clearTimeout(to) has run,
\* and `await res.text()` never settles: the worker stays where it is
BodyStalls(w) ==
  /\ pc \in {"upgrade", "canon"}
  /\ w \in DOMAIN workers
  /\ workers[w].pc = "fetch"
  /\ "stall" \in web
  /\ Parses(PoolItems[workers[w].idx + 1].link)
  /\ workers' = [workers EXCEPT ![w] = [pc |-> "body", idx |-> workers[w].idx]]
  /\ UNCHANGED <<pc, cursor, results, claims, writes, timers, fetched, netCalls, exitCode,
                 clockVars, configVars, fetchVars, stageVars, filterVars, outVars, permVars,
                 normVars>>

SlotValues(res) == [k \in DOMAIN res |-> res[k].val]

\* Promise.all resolves: upgradeAggregatorsToOriginals returns and main calls
\* canonicalizeAll(upgraded)
UpgradeReturns ==
  /\ pc = "upgrade"
  /\ AllDone
  /\ upgraded' = SlotValues(results)
  /\ StartPool("canon", upgraded')
  /\ pc' = "canon"
  /\ UNCHANGED <<normalized, canonicalized, exitCode, clockVars, configVars, fetchVars,
                 filterVars, outVars, permVars, normVars>>

\* Promise.all resolves: canonicalizeAll returns
CanonReturns ==
  /\ pc = "canon"
  /\ AllDone
  /\ canonicalized' = SlotValues(results)
  /\ pc' = "dedupe"
  /\ UNCHANGED <<normalized, upgraded, netCalls, exitCode, clockVars, configVars, fetchVars,
                 poolVars, filterVars, outVars, permVars, normVars>>

\* ---------------------------------------------------------- sources.json
\* a SiteConfig.  host is "" where the document gives an index URL only;
\* allow and block are the sets of its path patterns, throttle_ms is 0 where
\* the document has none
Site(hostName, index, source, selector, maxPages) ==
  [host |-> hostName, index |-> index, source |-> source, selector |-> selector,
   max_pages |-> maxPages, allow |-> {}, block |-> {}, throttle_ms |-> 0]

\* new RegExp(p) for the patterns of the model: "^/a/b" (dir FALSE) and
\* "^/a/b/" (dir TRUE), prefix being <<"a", "b">>.  No path segment of the
\* model begins with another one
Pattern(prefix, dir) == [prefix |-> prefix, dir |-> dir]

\* the segments of `prefix` begin the path
BeginsPath(prefix, path) ==
  Len(prefix) <= Len(path) /\ SubSeq(path, 1, Len(prefix)) = prefix

\* rx.test(pathname), the pathname ending in u.slashes "/" characters
rxTest(rx, u) ==
  /\ rx.prefix # <<>>
  /\ BeginsPath(rx.prefix, u.path)
  /\ rx.dir => (Len(u.path) > Len(rx.prefix) \/ u.slashes >= 1)

\* pathOk: no block pattern matches and, with an allow list, an allow
\* pattern does; without one, the path is the indexed section or under it
pathOk(u, baseIndexUrl, site) ==
  IF ~Parses(u) \/ ~Parses(baseIndexUrl) THEN FALSE
  ELSE IF \E rx \in site.block : rxTest(rx, u) THEN FALSE
  ELSE IF site.allow # {} THEN \E rx \in site.allow : rxTest(rx, u)
  ELSE LET section == baseIndexUrl.path
       IN \/ BeginsPath(section, u.path) /\ (Len(u.path) > Len(section) \/ u.slashes >= 1)
          \/ u.path = section /\ u.slashes = 0

\* const throttle = Number(site.throttle_ms || SETTINGS.THROTTLE_MS)   (R3)
\* const throttle = Number(site.throttle_ms || 0)                       (R1, R2)
throttle(site, rev) ==
  IF site.throttle_ms # 0 THEN site.throttle_ms
  ELSE IF rev = "R3" THEN THROTTLE_MS ELSE 0

FeedA == Url(FALSE, "feeds.example", <<"rss">>)
FeedB == Url(FALSE, "news.example", <<"feed">>)
SiteA == Site("brand.example", Url(FALSE, "brand.example", <<>>), "", FALSE, 1)
SiteB == Site("contest.co.nz", Url(TRUE, "contest.co.nz", <<>>), "", FALSE, 1)
\* a site whose index has two pages
SiteC == Site("brand.example", Url(FALSE, "brand.example", <<>>), "", FALSE, 2)

\* the site loadSources (R1) falls back to
BUILT_IN_EXAMPLE ==
  Site("nzmcd.co.nz", [Url(FALSE, "nzmcd.co.nz", <<"competitions">>) EXCEPT !.slashes = 1],
       "NZMCD", TRUE, 1)

Loaded(rss, sites) == [ok |-> TRUE, rss |-> rss, sites |-> sites]

\* what sources.json may be: missing or invalid, or a document of feeds and sites
Configs ==
  {NoSources} \cup
  {Loaded(rss, sites) : rss \in {<<>>, <<FeedA>>}, sites \in {<<>>, <<SiteA>>, <<SiteB>>}}

\* what main goes on with: ok is FALSE where main calls process.exit(1)
loadSources(doc, rev) ==
  IF doc.ok THEN doc
  ELSE IF rev = "R1" THEN Loaded(<<>>, <<BUILT_IN_EXAMPLE>>)
  ELSE NoSources

\* where main stands once feed fi and site si are the next to fetch
NextFetchPc(src, fi, si, rev) ==
  IF fi <= Len(src.rss) THEN "feeds"
  ELSE IF si <= Len(src.sites) THEN "sites"
  ELSE IF rev = "R1" THEN "write" ELSE "normalize"

\* main reads sources.json
LoadSources ==
  /\ pc = "load"
  /\ sources' = loadSources(config, revision)
  /\ IF sources'.ok
       THEN /\ pc' = NextFetchPc(sources', 1, 1, revision)
            /\ UNCHANGED exitCode
       ELSE /\ pc' = "exited"
            /\ exitCode' = 1
  /\ UNCHANGED <<revision, config, web, netCalls, clockVars, fetchVars, poolVars,
                 stageVars, filterVars, outVars, permVars, normVars>>

\* ------------------------------------------------------------------ feeds
Entry(title, link, pub) == [title |-> title, link |-> link, pub |-> pub]

\* the entries a feed document may hold, in the order it holds them
FeedEntries ==
  << Entry(<<"W","i","n">>, ContestPage, StartTime - 5),
     Entry(<<"T","r","y">>, [BrandOffer EXCEPT !.track = TRUE], NULL),
     Entry(<<"O","l","d">>, OpaqueLink("guid"), StartTime + 20),
     Entry(<<>>, BrandOther, NULL) >>

RECURSIVE Restrict(_, _, _)
\* the elements of q at the positions in S, from position k on
Restrict(q, S, k) ==
  IF k > Len(q) THEN <<>>
  ELSE (IF k \in S THEN <<q[k]>> ELSE <<>>) \o Restrict(q, S, k + 1)

FeedDocs ==
  { Restrict(FeedEntries, S, 1) :
      S \in {T \in SUBSET DOMAIN FeedEntries : Cardinality(T) <= MaxFeedEntries} }

Untitled == <<"(", "u", ")">>

\* toCompetition
toCompetition(c, clock, rev) ==
  IF rev = "R3"
    THEN RawRecord(collapse(c.title), cleanUrl(c.link),
                   IF c.source # "" THEN c.source ELSE sourceFromLink(c.link),
                   clampFutureISO(c.createdAt, clock),
                   IF c.deadline # NULL THEN clampFutureISO(c.deadline, clock) ELSE NULL)
    ELSE RawRecord(collapse(c.title), c.link, c.source, c.createdAt, c.deadline)

\* what parseRSSFeed (R2, R3) or fetchRSS (R1) returns for the document
parseRSSFeed(doc, url, clock, rev) ==
  LET hostOf(e) == IF rev = "R3" THEN sourceFromLink(e.link) ELSE sourceFromLink_R2(e.link)
      source(e) == IF hostOf(e) # "" THEN hostOf(e) ELSE url.dom
      accepted(e) == collapse(e.title) # <<>> /\ Truthy(e.link)
      kept == SelectSeq(doc, accepted)
  IN IF rev = "R1"
       THEN [k \in DOMAIN doc |->
               RawRecord(IF collapse(doc[k].title) # <<>> THEN collapse(doc[k].title) ELSE Untitled,
                         doc[k].link, url.dom, doc[k].pub, NULL)]
       ELSE [k \in DOMAIN kept |->
               toCompetition(RawRecord(kept[k].title, kept[k].link, source(kept[k]),
                                       kept[k].pub, NULL), clock, rev)]

\* entries of fetchLog
NoPage == [title |-> <<>>, comp |-> FALSE, listing |-> FALSE, date |-> NULL]

\* slept: whether `await sleep(throttle)` ran in the loop pass of the fetch,
\* before it and after it
Slept(before, after) == [before |-> before, after |-> after]

FeedFetch(url, ok, doc, at) ==
  [step |-> "feed", site |-> 0, url |-> url, page |-> 0, ok |-> ok, feed |-> doc,
   doc |-> NoPage, at |-> at, slept |-> Slept(FALSE, FALSE)]

IndexFetch(site, p, ok, at, slept) ==
  [step |-> "index", site |-> site, url |-> EmptyLink, page |-> p, ok |-> ok, feed |-> <<>>,
   doc |-> NoPage, at |-> at, slept |-> slept]

PageFetch(site, href, ok, doc, at, slept) ==
  [step |-> "page", site |-> site, url |-> href, page |-> 0, ok |-> ok, feed |-> <<>>,
   doc |-> doc, at |-> at, slept |-> slept]

pushAllReplacing(list, arr) == arr

\* list.push(...arr)
pushAll(list, arr) == list \o arr

\* for (const r of rss): one feed is fetched and parsed; a failed fetch
\* gives no record
ParseRSSFeed ==
  /\ pc = "feeds"
  /\ feedIdx <= Len(sources.rss)
  /\ netCalls' = netCalls + 1
  /\ \E kind \in web \cap {"fail", "ok"} :
       \E doc \in (IF kind = "ok" THEN FeedDocs ELSE {<<>>}) :
         /\ raw' = pushAll(raw, IF kind = "ok"
                                  THEN parseRSSFeed(doc, sources.rss[feedIdx], now, revision)
                                  ELSE <<>>)
         /\ fetchLog' = Append(fetchLog, FeedFetch(sources.rss[feedIdx], kind = "ok", doc, now))
  /\ feedIdx' = feedIdx + 1
  /\ pc' = NextFetchPc(sources, feedIdx', siteIdx, revision)
  /\ UNCHANGED <<exitCode, siteIdx, crawl, clockVars, configVars, poolVars, stageVars,
                 filterVars, outVars, permVars, normVars>>

\* fetchText of R1 and R2 sets no timeout: the fetch of a feed or page whose
\* server never ends its answer never settles, and main stays at its await.
\* (R3's fetchText aborts at timeoutMs, body included: there the fetch fails.)
FetchHangs ==
  /\ pc \in {"feeds", "sites"}
  /\ revision \in {"R1", "R2"}
  /\ "stall" \in web
  /\ netCalls' = netCalls + 1
  /\ pc' = "hung"
  /\ UNCHANGED <<exitCode, clockVars, configVars, fetchVars, poolVars, stageVars, filterVars,
                 outVars, permVars, normVars>>

\* ------------------------------------------------------------------ sites
\* a detail page: its title, whether looksLikeCompetition (R3) accepts it,
\* whether it looks like a listing (R2), and the date it carries
PageDoc(title, comp, listing, date) ==
  [title |-> title, comp |-> comp, listing |-> listing, date |-> date]

PageDocs ==
  { PageDoc(<<"W","i","n">>, TRUE, FALSE, NULL),
    PageDoc(<<"A","l","l">>, FALSE, TRUE, StartTime - 5) }

\* the anchors of the site's index page number p
IndexAnchors(site, p) ==
  CASE site.index.dom = "brand.example" ->
         IF p = 1
           THEN << [BrandOffer EXCEPT !.slashes = 1], FacebookPage,
                   [BrandOffer EXCEPT !.frag = TRUE] >>
           ELSE << BrandOther, [BrandOffer EXCEPT !.track = TRUE] >>
    \* the shop's /win/ section: a link to the section itself, two entries,
    \* the terms, a page outside the section and a page elsewhere
    [] site.index.dom = "shop.example" ->
         << [ShopWin EXCEPT !.slashes = 1], ShopWinA, ShopWinTerms, ShopDeal,
            FacebookPage, [ShopWinA EXCEPT !.frag = TRUE] >>
    [] OTHER -> << Url(TRUE, site.index.dom, <<"competitions", "x">>) >>

\* the number of index pages crawlSite fetches: Math.max(1, site.max_pages)
\* in R3, one in R1 and R2
indexPages(site, rev) ==
  IF rev = "R3" THEN (IF site.max_pages > 1 THEN site.max_pages ELSE 1) ELSE 1

RECURSIVE Unique(_)
\* the first occurrence of every element, in order
Unique(q) ==
  IF q = <<>> THEN <<>>
  ELSE LET rest == Unique(SubSeq(q, 1, Len(q) - 1))
       IN IF q[Len(q)] \in Range(rest) THEN rest ELSE Append(rest, q[Len(q)])

\* the detail pages crawlSite goes on to visit
candidateHrefs(site, anchors, rev) ==
  LET \* if (baseHost && u.hostname.replace(/^www\./, "") !== baseHost) return
      sameSite(a) == Parses(a) /\ (site.host = "" \/ a.dom = site.host)
      \* if (!pathOk(abs, page)) return                                  (R3)
      wanted(a) == sameSite(a) /\ (rev = "R3" => pathOk(a, site.index, site))
      onSite == SelectSeq(anchors, wanted)
  IN IF rev = "R1"
       THEN (IF site.selector THEN Unique(anchors) ELSE <<>>)
       ELSE Unique([k \in DOMAIN onSite |-> cleanUrl(onSite[k])])

\* seenIndexHrefs / candidateHrefs over the index pages: a link found on a
\* later page is added unless an earlier page gave it
mergeHrefs(hrefs, found) == Unique(hrefs \o found)

afterPageStopOnFailure(pos, n, ok) == IF ok THEN pos + 1 ELSE n + 1

\* for (const href of hrefs) { try { ... } catch { ... } }: the position the
\* loop goes on with after the page at pos, fetched or not
afterPage(pos, n, ok) == pos + 1

\* the records a detail page adds to the site's items
pageRecords(site, href, doc, clock, rev) ==
  LET \* site.source || baseHost || sourceFromLink(href)
      src == IF site.source # "" THEN site.source
             ELSE IF site.host # "" THEN site.host
             ELSE IF rev = "R3" THEN sourceFromLink(href) ELSE sourceFromLink_R2(href)
  IN CASE rev = "R3" ->
            IF ~doc.comp THEN <<>>
            ELSE << toCompetition(RawRecord(doc.title, href, src,
                                            IF doc.date # NULL THEN doc.date ELSE clock,
                                            NULL), clock, rev) >>
       [] rev = "R2" ->
            IF doc.listing THEN <<>>
            ELSE << toCompetition(RawRecord(doc.title, href, src, doc.date, NULL), clock, rev) >>
       [] OTHER -> << RawRecord(doc.title, href, src, NULL, NULL) >>

\* the index-page loop: R3 sleeps at the end of every pass, fetched or not
indexSlept(site, rev) == Slept(FALSE, rev = "R3" /\ throttle(site, rev) # 0)

\* the detail-page loop.  R3 sleeps at the end of the pass, which `continue`
\* skips for a page looksLikeCompetition rejects; R1 and R2 sleep at the head
\* of the pass, and so does the copy of the script in src/pages/History.tsx
pageSlept(site, ok, doc, rev) ==
  IF rev = "R3"
    THEN Slept(FALSE, throttle(site, rev) # 0 /\ ~(ok /\ ~doc.comp))
    ELSE Slept(throttle(site, rev) > 0, FALSE)

\* crawlSite returns and main goes on with the next site
FinishSite(items) ==
  /\ raw' = pushAll(raw, items)
  /\ siteIdx' = siteIdx + 1
  /\ crawl' = NoCrawl
  /\ pc' = NextFetchPc(sources, feedIdx, siteIdx', revision)
  /\ UNCHANGED exitCode

\* main() rejects: process.exit(1)
Crash ==
  /\ pc' = "exited"
  /\ exitCode' = 1
  /\ UNCHANGED <<raw, siteIdx, crawl>>

\* crawlSite fetches the next index page
CrawlIndex ==
  /\ pc = "sites"
  /\ crawl.phase \in {"idle", "index"}
  /\ siteIdx <= Len(sources.sites)
  /\ netCalls' = netCalls + 1
  /\ LET site == sources.sites[siteIdx]
     IN \E kind \in web \cap {"fail", "ok"} :
          /\ fetchLog' = Append(fetchLog, IndexFetch(siteIdx, crawl.page, kind = "ok", now,
                                                     indexSlept(site, revision)))
          \* R2 returns [] when the fetch fails and main reads res.items.length
          \* of it; R3 logs the failure and goes on; R1's crawlSiteCard
          \* throws and main catches
          /\ IF kind = "fail" /\ revision = "R2" THEN Crash
             ELSE LET found == candidateHrefs(site, IndexAnchors(site, crawl.page), revision)
                      hrefs == IF kind = "ok" THEN mergeHrefs(crawl.hrefs, found)
                               ELSE crawl.hrefs
                  IN IF crawl.page < indexPages(site, revision)
                       THEN /\ crawl' = [crawl EXCEPT !.phase = "index", !.page = @ + 1,
                                                      !.hrefs = hrefs]
                            /\ UNCHANGED <<pc, raw, siteIdx, exitCode>>
                     ELSE IF hrefs = <<>> THEN FinishSite(<<>>)
                     ELSE /\ crawl' = [phase |-> "pages", page |-> crawl.page, hrefs |-> hrefs,
                                       pos |-> 1, items |-> <<>>]
                          /\ UNCHANGED <<pc, raw, siteIdx, exitCode>>
  /\ UNCHANGED <<feedIdx, clockVars, configVars, poolVars, stageVars, filterVars,
                 outVars, permVars, normVars>>

\* crawlSite fetches the next detail page; a failed fetch is logged and skipped
CrawlPage ==
  /\ pc = "sites"
  /\ crawl.phase = "pages"
  /\ netCalls' = netCalls + 1
  /\ LET site == sources.sites[siteIdx]
         href == crawl.hrefs[crawl.pos]
     IN \E kind \in web \cap {"fail", "ok"} :
          \E doc \in (IF kind = "ok" THEN PageDocs ELSE {NoPage}) :
            LET items == pushAll(crawl.items,
                                 IF kind = "ok" THEN pageRecords(site, href, doc, now, revision)
                                 ELSE <<>>)
                next == afterPage(crawl.pos, Len(crawl.hrefs), kind = "ok")
            IN /\ fetchLog' = Append(fetchLog,
                                    PageFetch(siteIdx, href, kind = "ok", doc, now,
                                              pageSlept(site, kind = "ok", doc, revision)))
               /\ IF next > Len(crawl.hrefs) THEN FinishSite(items)
                  ELSE /\ crawl' = [crawl EXCEPT !.pos = next, !.items = items]
                       /\ UNCHANGED <<pc, raw, siteIdx, exitCode>>
  /\ UNCHANGED <<feedIdx, clockVars, configVars, poolVars, stageVars, filterVars,
                 outVars, permVars, normVars>>

\* -------------------------------------------------------------- normalize
\* const normalized = raw.map(normalizeItem); R3 goes on to call
\* upgradeAggregatorsToOriginals(normalized)
Normalize ==
  /\ pc = "normalize"
  /\ normalized' = [k \in DOMAIN raw |-> normalizeItem(raw[k], now, revision)]
  /\ IF revision = "R3"
       THEN /\ StartPool("upgrade", normalized')
            /\ pc' = "upgrade"
       ELSE /\ pc' = "dedupe"
            /\ UNCHANGED <<netCalls, poolVars>>
  \* the fetching is over: its history is dropped
  /\ fetchLog' = <<>>
  /\ UNCHANGED <<upgraded, canonicalized, exitCode, clockVars, configVars, feedIdx, siteIdx,
                 crawl, raw, filterVars, outVars, permVars, normVars>>

\* -------------------------------------------------------------- R1's main
\* Math.random ids, taken to be free of collisions
RandomId(n) == [link |-> EmptyLink, title |-> <<"r">>, source |-> ToString(n)]

RECURSIVE dedupeByLink(_, _)
\* De-duplicate by link (fallback to id): the first record of a key stays
dedupeByLink(all, seen) ==
  IF all = <<>> THEN <<>>
  ELSE LET it == Head(all)
       IN IF it.id \in seen THEN dedupeByLink(Tail(all), seen)
          ELSE <<it>> \o dedupeByLink(Tail(all), seen \cup {it.id})

\* R1 writes public/feeds.json and main() returns
WriteFeeds ==
  /\ pc = "write"
  /\ revision = "R1"
  /\ LET all == [k \in DOMAIN raw |->
                   [id |-> IF Truthy(raw[k].link) THEN LinkId(raw[k].link) ELSE RandomId(k),
                    title |-> raw[k].title, link |-> raw[k].link, source |-> raw[k].source,
                    createdAt |-> raw[k].createdAt, deadline |-> raw[k].deadline]]
     IN catalog' = dedupeByLink(all, {})
  /\ catalogWrites' = catalogWrites + 1
  /\ pc' = "done"
  /\ exitCode' = 0
  /\ UNCHANGED <<netCalls, clockVars, configVars, fetchVars, poolVars, stageVars,
                 filterVars, health, healthWrites, permVars, normVars>>

\* ------------------------------------------------- dedupe, then freshness
\* const deduped = dedupe(canonicalized)            (R3)
\* const deduped = dedupe(normalized)               (R2)
Dedupe ==
  /\ pc = "dedupe"
  /\ deduped' = dedupeOf(IF revision = "R3" THEN canonicalized ELSE normalized, revision)
  /\ filterPos' = 1
  /\ filtered' = <<>>
  /\ keptAt' = <<>>
  /\ pc' = "filter"
  /\ UNCHANGED <<netCalls, exitCode, clockVars, configVars, fetchVars, poolVars,
                 stageVars, outVars, permVars, normVars>>

\* deduped.filter(freshnessFilter): one call of the callback
FilterStep ==
  /\ pc = "filter"
  /\ filterPos <= Len(deduped)
  /\ LET it == deduped[filterPos]
     IN IF freshnessFilter(it, now, revision)
          THEN /\ filtered' = Append(filtered, it)
               /\ keptAt' = Append(keptAt, now)
          ELSE UNCHANGED <<filtered, keptAt>>
  /\ filterPos' = filterPos + 1
  /\ UNCHANGED <<pc, deduped, netCalls, exitCode, clockVars, configVars, fetchVars,
                 poolVars, stageVars, outVars, permVars, normVars>>

\* ------------------------------------------------------------ sort, write
\* the rank of a character in localeCompare's order (case is a tie-break)
CharRank(c) ==
  IF \E k \in DOMAIN LowerChars : LowerChars[k] = LowerChar(c)
    THEN CHOOSE k \in DOMAIN LowerChars : LowerChars[k] = LowerChar(c)
    ELSE 0

RECURSIVE baseCompare(_, _)
\* -1, 0, 1: a before b, equal up to case, a after b
baseCompare(a, b) ==
  IF a = <<>> THEN (IF b = <<>> THEN 0 ELSE -1)
  ELSE IF b = <<>> THEN 1
  ELSE IF CharRank(Head(a)) < CharRank(Head(b)) THEN -1
  ELSE IF CharRank(Head(a)) > CharRank(Head(b)) THEN 1
  ELSE baseCompare(Tail(a), Tail(b))

RECURSIVE caseCompare(_, _)
\* among texts equal up to case: the first differing character decides,
\* lower case first
caseCompare(a, b) ==
  IF a = <<>> \/ b = <<>> THEN 0
  ELSE IF Head(a) = Head(b) THEN caseCompare(Tail(a), Tail(b))
  ELSE IF Head(a) = LowerChar(Head(a)) THEN -1 ELSE 1

\* a.localeCompare(b)
localeCompare(a, b) ==
  IF baseCompare(a, b) # 0 THEN baseCompare(a, b) ELSE caseCompare(a, b)

\* a.createdAt ? Date.parse(a.createdAt) : 0
SortTime(x) == IF x.createdAt # NULL THEN x.createdAt ELSE 0

\* main's comparator: negative when a sorts before b
compareListings(a, b, rev) ==
  IF SortTime(b) # SortTime(a) THEN SortTime(b) - SortTime(a)
  ELSE IF rev = "R3" THEN localeCompare(a.title, b.title)
  ELSE 0

RECURSIVE insertSorted(_, _, _)
\* x behind every element it does not sort before (the sort is stable)
insertSorted(x, sorted, rev) ==
  IF sorted = <<>> THEN <<x>>
  ELSE IF compareListings(x, Head(sorted), rev) < 0 THEN <<x>> \o sorted
  ELSE <<Head(sorted)>> \o insertSorted(x, Tail(sorted), rev)

RECURSIVE sortListings(_, _)
\* filtered.sort(comparator)
sortListings(items, rev) ==
  IF items = <<>> THEN <<>>
  ELSE insertSorted(items[Len(items)], sortListings(SubSeq(items, 1, Len(items) - 1), rev), rev)

\* filtered.sort(...); await fs.writeFile(outPath, JSON.stringify(filtered))
WriteCatalog ==
  /\ pc = "filter"
  /\ filterPos > Len(deduped)
  /\ catalog' = sortListings(filtered, revision)
  /\ catalogWrites' = catalogWrites + 1
  /\ pc' = "health"
  /\ UNCHANGED <<netCalls, exitCode, clockVars, configVars, fetchVars, poolVars,
                 stageVars, filterVars, health, healthWrites, permVars, normVars>>

\* const key = it.source || "unknown"
sourceKey(it) == IF it.source # "" THEN it.source ELSE "unknown"

\* for (const it of filtered) perSource[key] = (perSource[key] || 0) + 1
perSource(items) ==
  [key \in {sourceKey(items[k]) : k \in DOMAIN items} |->
     Cardinality({k \in DOMAIN items : sourceKey(items[k]) = key})]

healthReportKeptIsDeduped(rw, nm, up, cn, dd, kept) ==
  [raw |-> Len(rw), normalized |-> Len(nm), upgraded |-> Len(up),
   canonicalized |-> Len(cn), deduped |-> Len(dd), kept |-> Len(dd),
   perSource |-> perSource(kept)]

\* health.counts and health.perSource (R2 reports no upgraded and no
\* canonicalized count: both lists are empty there)
healthReport(rw, nm, up, cn, dd, kept) ==
  [raw |-> Len(rw), normalized |-> Len(nm), upgraded |-> Len(up),
   canonicalized |-> Len(cn), deduped |-> Len(dd), kept |-> Len(kept),
   perSource |-> perSource(kept)]

\* await fs.writeFile(ingestPath, JSON.stringify(health)); main() returns
WriteHealth ==
  /\ pc = "health"
  /\ health' = healthReport(raw, normalized, upgraded, canonicalized, deduped, filtered)
  /\ healthWrites' = healthWrites + 1
  /\ pc' = "done"
  /\ exitCode' = 0
  /\ UNCHANGED <<netCalls, clockVars, configVars, fetchVars, poolVars,
                 stageVars, filterVars, catalog, catalogWrites, permVars, normVars>>

\* ==================================================================== Spec
\* one run of the script, from its start to its exit
Init ==
  /\ revision \in {"R1", "R2", "R3"}
  /\ pc = "load"
  /\ now = StartTime
  /\ ticks = 0
  /\ config \in Configs
  /\ sources = NoSources
  /\ web \in WebProfiles
  /\ netCalls = 0
  /\ exitCode = -1
  /\ feedIdx = 1
  /\ siteIdx = 1
  /\ crawl = NoCrawl
  /\ raw = <<>>
  /\ fetchLog = <<>>
  /\ normalized = <<>>
  /\ upgraded = <<>>
  /\ canonicalized = <<>>
  /\ cursor = 0
  /\ results = <<>>
  /\ workers = <<>>
  /\ claims = <<>>
  /\ writes = <<>>
  /\ timers = <<>>
  /\ fetched = NoneFetched
  /\ deduped = <<>>
  /\ filterPos = 1
  /\ filtered = <<>>
  /\ keptAt = <<>>
  /\ catalog = <<>>
  /\ catalogWrites = 0
  /\ health = NoHealth
  /\ healthWrites = 0
  /\ permuted = <<>>
  /\ dedupedPerm = <<>>
  /\ renormalized = <<>>
  /\ normalizedAgain = <<>>

Next ==
  \/ Tick
  \/ LoadSources
  \/ ParseRSSFeed
  \/ FetchHangs
  \/ CrawlIndex
  \/ CrawlPage
  \/ Normalize
  \/ \E w \in 1..CANON_CONCURRENCY : LookupReturns(w)
  \/ \E w \in 1..CANON_CONCURRENCY : BodyStalls(w)
  \/ \E w \in 1..CANON_CONCURRENCY : WorkerWakes(w)
  \/ UpgradeReturns
  \/ CanonReturns
  \/ Dedupe
  \/ FilterStep
  \/ WriteCatalog
  \/ WriteHealth
  \/ WriteFeeds

Spec == Init /\ [][Next]_vars

\* the runs in which servers may leave a body unended, under the scheduling
\* of Node's event loop: a step that can be taken is taken
InitLive == Init /\ "stall" \in web

SpecLive == InitLive /\ [][Next]_vars /\ WF_vars(Next)

\* ============================================================= SpecStages
\* dedupe, freshnessFilter and the two writes on every short list of
\* normalized records

StageRaws ==
  { RawRecord(<<"W","i","n">>, BrandOffer, "", StartTime - 5, NULL),
    RawRecord(<<"T","r","y">>, [BrandOffer EXCEPT !.track = TRUE], "", StartTime - 5, NULL),
    RawRecord(<<"w","i","n">>, BrandOther, "", NULL, StartTime + 1),
    RawRecord(<<"W","i","n","s">>, [BrandOffer EXCEPT !.slashes = 2], "", NULL, NULL),
    RawRecord(<<"W","i","n">>, EmptyLink, "brand.example", StartTime - 5, NULL),
    RawRecord(<<"O","l","d">>, ShopDeal, "", StartTime - days(401), NULL),
    RawRecord(<<"D","u","e">>, ShopDeal, "Brand", StartTime - days(401), StartTime - 1),
    RawRecord(<<"W","i","n">>, ShopDeal, "", StartTime - 5, NULL) }

Permute(s, p) == [k \in DOMAIN s |-> s[p[k]]]

\* the list main hands to dedupe
DedupeInput == IF revision = "R3" THEN canonicalized ELSE normalized

\* the state in which main calls dedupe on a list made of StageRaws, every
\* canonical lookup of R3 having failed
StagesStart ==
  /\ revision \in {"R2", "R3"}
  /\ now = StartTime
  /\ ticks = 0
  /\ config = [ok |-> TRUE, rss |-> <<>>, sites |-> <<>>]
  /\ sources = config
  /\ web = ResponseKinds
  /\ netCalls = 0
  /\ exitCode = -1
  /\ feedIdx = 1
  /\ siteIdx = 1
  /\ crawl = NoCrawl
  /\ raw \in SeqsUpTo(StageRaws, MaxItems)
  /\ fetchLog = <<>>
  /\ normalized = [k \in DOMAIN raw |-> normalizeItem(raw[k], StartTime, revision)]
  /\ upgraded = IF revision = "R3" THEN normalized ELSE <<>>
  \* primary is cleanUrl(it.link)
  /\ canonicalized =
       IF revision = "R3"
         THEN [k \in DOMAIN upgraded |->
                 IF Truthy(upgraded[k].link)
                   THEN withLink(upgraded[k], cleanUrl(upgraded[k].link))
                   ELSE upgraded[k]]
         ELSE <<>>
  /\ cursor = 0
  /\ results = <<>>
  /\ workers = <<>>
  /\ claims = <<>>
  /\ writes = <<>>
  /\ timers = <<>>
  /\ fetched = NoneFetched
  /\ deduped = <<>>
  /\ filterPos = 1
  /\ filtered = <<>>
  /\ keptAt = <<>>
  /\ catalog = <<>>
  /\ catalogWrites = 0
  /\ health = NoHealth
  /\ healthWrites = 0
  /\ dedupedPerm = <<>>
  /\ renormalized = <<>>
  /\ normalizedAgain = <<>>

InitStages ==
  /\ StagesStart
  /\ pc = "dedupe"
  /\ permuted = <<>>

NextStages == Tick \/ Dedupe \/ FilterStep \/ WriteCatalog \/ WriteHealth

SpecStages == InitStages /\ [][NextStages]_vars

\* ============================================================= SpecDedupe
\* dedupe on a list and on a permutation of the list
InitDedupe ==
  /\ StagesStart
  /\ pc = "permute"
  /\ permuted \in {Permute(DedupeInput, p) : p \in Permutations(DOMAIN DedupeInput)}

\* dedupe applied to the permuted list
DedupePermuted ==
  /\ pc = "permute"
  /\ dedupedPerm' = dedupeOf(permuted, revision)
  /\ pc' = "dedupe"
  /\ UNCHANGED <<netCalls, exitCode, clockVars, configVars, fetchVars, poolVars,
                 stageVars, filterVars, outVars, permuted, normVars>>

NextDedupe == DedupePermuted \/ Dedupe

SpecDedupe == InitDedupe /\ [][NextDedupe]_vars

\* =============================================================== SpecPool
\* upgradeAggregatorsToOriginals, then canonicalizeAll, on lists longer than
\* the pools are wide
PoolRaws ==
  << RawRecord(<<"W","i","n">>, ContestPage, "", StartTime - 5, NULL),
     RawRecord(<<"T","r","y">>, [ShopDeal EXCEPT !.track = TRUE], "", NULL, NULL),
     RawRecord(<<"O","l","d">>, EmptyLink, "brand.example", NULL, NULL) >>

\* the lists the pools are run on: n records taken round PoolRaws from `first`
PoolList(n, first) ==
  [k \in 1..n |-> PoolRaws[((k + first - 2) % Len(PoolRaws)) + 1]]

InitPool ==
  /\ revision = "R3"
  /\ pc = "upgrade"
  /\ now = StartTime
  /\ ticks = 0
  /\ config = [ok |-> TRUE, rss |-> <<>>, sites |-> <<>>]
  /\ sources = config
  /\ web \in {{"fail"}, {"anchor", "canonical"}}
  /\ exitCode = -1
  /\ feedIdx = 1
  /\ siteIdx = 1
  /\ crawl = NoCrawl
  /\ raw \in {PoolList(n, first) : n \in 0..MaxPoolItems, first \in DOMAIN PoolRaws}
  /\ fetchLog = <<>>
  /\ normalized = [k \in DOMAIN raw |-> normalizeItem(raw[k], StartTime, "R3")]
  /\ upgraded = <<>>
  /\ canonicalized = <<>>
  /\ LET P == StartWorkers(FreshPool("upgrade", normalized), 1, "upgrade", normalized)
     IN /\ cursor = P.cursor
        /\ results = P.results
        /\ workers = P.workers
        /\ claims = P.claims
        /\ writes = P.writes
        /\ timers = P.timers
        /\ netCalls = P.net
  /\ fetched = [NoneFetched EXCEPT !.upgrade = [k \in DOMAIN normalized |-> NotCalled]]
  /\ deduped = <<>>
  /\ filterPos = 1
  /\ filtered = <<>>
  /\ keptAt = <<>>
  /\ catalog = <<>>
  /\ catalogWrites = 0
  /\ health = NoHealth
  /\ healthWrites = 0
  /\ permuted = <<>>
  /\ dedupedPerm = <<>>
  /\ renormalized = <<>>
  /\ normalizedAgain = <<>>

NextPool ==
  \/ \E w \in 1..CANON_CONCURRENCY : LookupReturns(w)
  \/ \E w \in 1..CANON_CONCURRENCY : WorkerWakes(w)
  \/ UpgradeReturns
  \/ CanonReturns

SpecPool == InitPool /\ [][NextPool]_vars

\* ========================================================== SpecNormalize
\* normalizeItem on one raw record: applied to the record, applied to its own
\* output at the same clock value, and applied to the record once more later
Blank == " "

NormTitles == { <<"W","i","n">>, <<Blank, "W", Blank, Blank, "i", Blank>> }

NormLinks ==
  { EmptyLink, OpaqueLink("guid"),
    [BrandOffer EXCEPT !.track = TRUE, !.frag = TRUE, !.upper = TRUE],
    [BrandOffer EXCEPT !.slashes = 1],
    [BrandOffer EXCEPT !.slashes = 2] }

NormTimes ==
  { NULL, StartTime - 5, StartTime + FUTURE_CREATEDAT_SKEW_MIN,
    StartTime + FUTURE_CREATEDAT_SKEW_MIN + 1, StartTime + 2 * FUTURE_CREATEDAT_SKEW_MIN }

NormRaws ==
  { RawRecord(t, l, s, c, d) :
      t \in NormTitles, l \in NormLinks, s \in {"", "Brand"}, c \in NormTimes,
      d \in {NULL, StartTime - 1, StartTime + 3 * FUTURE_CREATEDAT_SKEW_MIN} }

InitNormalize ==
  /\ revision \in {"R2", "R3"}
  /\ pc = "first"
  /\ now = StartTime
  /\ ticks = 0
  /\ config = [ok |-> TRUE, rss |-> <<>>, sites |-> <<>>]
  /\ sources = config
  /\ web = ResponseKinds
  /\ netCalls = 0
  /\ exitCode = -1
  /\ feedIdx = 1
  /\ siteIdx = 1
  /\ crawl = NoCrawl
  /\ raw \in {<<x>> : x \in NormRaws}
  /\ fetchLog = <<>>
  /\ normalized = <<>>
  /\ upgraded = <<>>
  /\ canonicalized = <<>>
  /\ cursor = 0
  /\ results = <<>>
  /\ workers = <<>>
  /\ claims = <<>>
  /\ writes = <<>>
  /\ timers = <<>>
  /\ fetched = NoneFetched
  /\ deduped = <<>>
  /\ filterPos = 1
  /\ filtered = <<>>
  /\ keptAt = <<>>
  /\ catalog = <<>>
  /\ catalogWrites = 0
  /\ health = NoHealth
  /\ healthWrites = 0
  /\ permuted = <<>>
  /\ dedupedPerm = <<>>
  /\ renormalized = <<>>
  /\ normalizedAgain = <<>>

\* raw.map(normalizeItem), and the same map over its result before the
\* clock moves
NormalizeFirst ==
  /\ pc = "first"
  /\ normalized' = [k \in DOMAIN raw |-> normalizeItem(raw[k], now, revision)]
  /\ renormalized' = [k \in DOMAIN raw |-> normalizeItem(normalized'[k], now, revision)]
  /\ pc' = "second"
  /\ UNCHANGED <<normalizedAgain, upgraded, canonicalized, netCalls, exitCode, clockVars,
                 configVars, fetchVars, poolVars, filterVars, outVars, permVars>>

\* raw.map(normalizeItem) once more
NormalizeSecond ==
  /\ pc = "second"
  /\ normalizedAgain' = [k \in DOMAIN raw |-> normalizeItem(raw[k], now, revision)]
  /\ pc' = "compared"
  /\ UNCHANGED <<renormalized, netCalls, exitCode, clockVars, configVars, fetchVars,
                 poolVars, stageVars, filterVars, outVars, permVars>>

NextNormalize == Tick \/ NormalizeFirst \/ NormalizeSecond

SpecNormalize == InitNormalize /\ [][NextNormalize]_vars

\* ============================================================== SpecFetch
\* main's loops over the feeds and the sites of a sources.json with two
\* feeds or two sites, one site's index having two pages, every fetch
\* failing or not
FetchConfigs ==
  { Loaded(<<FeedA, FeedB>>, <<SiteC>>), Loaded(<<FeedA>>, <<SiteB, SiteC>>) }

InitFetch ==
  /\ revision \in {"R2", "R3"}
  /\ pc = "load"
  /\ now = StartTime
  /\ ticks = 0
  /\ config \in FetchConfigs
  /\ sources = NoSources
  /\ web = ResponseKinds
  /\ netCalls = 0
  /\ exitCode = -1
  /\ feedIdx = 1
  /\ siteIdx = 1
  /\ crawl = NoCrawl
  /\ raw = <<>>
  /\ fetchLog = <<>>
  /\ normalized = <<>>
  /\ upgraded = <<>>
  /\ canonicalized = <<>>
  /\ cursor = 0
  /\ results = <<>>
  /\ workers = <<>>
  /\ claims = <<>>
  /\ writes = <<>>
  /\ timers = <<>>
  /\ fetched = NoneFetched
  /\ deduped = <<>>
  /\ filterPos = 1
  /\ filtered = <<>>
  /\ keptAt = <<>>
  /\ catalog = <<>>
  /\ catalogWrites = 0
  /\ health = NoHealth
  /\ healthWrites = 0
  /\ permuted = <<>>
  /\ dedupedPerm = <<>>
  /\ renormalized = <<>>
  /\ normalizedAgain = <<>>

NextFetch == Tick \/ LoadSources \/ ParseRSSFeed \/ FetchHangs \/ CrawlIndex \/ CrawlPage

SpecFetch == InitFetch /\ [][NextFetch]_vars

\* ============================================================= SpecGroups
\* dedupe (R3) on short lists of records as canonicalizeAll returns them:
\* several with one cleaned link, several with one signature, with and
\* without createdAt, one with a title of 2004 characters
LongTitle == [k \in 1..2004 |-> "x"]

\* a record whose canonical lookup left link and source as they were
Kept(title, link, createdAt) ==
  [id |-> LinkId(link), title |-> title, link |-> link, source |-> sourceFromLink(link),
   createdAt |-> createdAt, deadline |-> NULL]

GroupRecords ==
  { Kept(<<"W","i","n">>, BrandOffer, StartTime - 5),
    Kept(<<"T","r","y">>, BrandOffer, StartTime - 5),
    Kept(<<"W","i","n","s">>, BrandOffer, NULL),
    Kept(LongTitle, BrandOffer, NULL),
    Kept(<<"W","i","n">>, BrandOther, StartTime - 5),
    Kept(<<"w","i","n">>, Url(TRUE, "brand.example", <<"offer">>), NULL) }

InitGroups ==
  /\ revision = "R3"
  /\ pc = "dedupe"
  /\ now = StartTime
  /\ ticks = 0
  /\ config = [ok |-> TRUE, rss |-> <<>>, sites |-> <<>>]
  /\ sources = config
  /\ web = ResponseKinds
  /\ netCalls = 0
  /\ exitCode = -1
  /\ feedIdx = 1
  /\ siteIdx = 1
  /\ crawl = NoCrawl
  /\ canonicalized \in SeqsUpTo(GroupRecords, MaxItems)
  /\ upgraded = canonicalized
  /\ normalized = canonicalized
  /\ raw = [k \in DOMAIN normalized |->
              RawRecord(normalized[k].title, normalized[k].link, normalized[k].source,
                        normalized[k].createdAt, NULL)]
  /\ fetchLog = <<>>
  /\ cursor = 0
  /\ results = <<>>
  /\ workers = <<>>
  /\ claims = <<>>
  /\ writes = <<>>
  /\ timers = <<>>
  /\ fetched = NoneFetched
  /\ deduped = <<>>
  /\ filterPos = 1
  /\ filtered = <<>>
  /\ keptAt = <<>>
  /\ catalog = <<>>
  /\ catalogWrites = 0
  /\ health = NoHealth
  /\ healthWrites = 0
  /\ permuted = <<>>
  /\ dedupedPerm = <<>>
  /\ renormalized = <<>>
  /\ normalizedAgain = <<>>

NextGroups == Dedupe \/ FilterStep

SpecGroups == InitGroups /\ [][NextGroups]_vars

\* ============================================================ SpecResolve
\* upgradeAggregatorsToOriginals, then canonicalizeAll, on records of two
\* aggregators, the aggregator pages being of one kind in each behaviour and
\* every canonical lookup failing
ResolveRaws ==
  { RawRecord(<<"W","i","n">>, ContestPage, "", StartTime - 5, NULL),
    RawRecord(<<"T","r","y">>, CheapiesPage, "", NULL, NULL) }

InitResolve ==
  /\ revision = "R3"
  /\ pc = "upgrade"
  /\ now = StartTime
  /\ ticks = 0
  /\ config = [ok |-> TRUE, rss |-> <<>>, sites |-> <<>>]
  /\ sources = config
  /\ web \in { {"fail", a} : a \in {"bare", "anchor", "text", "self"} }
  /\ exitCode = -1
  /\ feedIdx = 1
  /\ siteIdx = 1
  /\ crawl = NoCrawl
  /\ raw \in SeqsUpTo(ResolveRaws, MaxItems)
  /\ fetchLog = <<>>
  /\ normalized = [k \in DOMAIN raw |-> normalizeItem(raw[k], StartTime, "R3")]
  /\ upgraded = <<>>
  /\ canonicalized = <<>>
  /\ LET P == StartWorkers(FreshPool("upgrade", normalized), 1, "upgrade", normalized)
     IN /\ cursor = P.cursor
        /\ results = P.results
        /\ workers = P.workers
        /\ claims = P.claims
        /\ writes = P.writes
        /\ timers = P.timers
        /\ netCalls = P.net
  /\ fetched = [NoneFetched EXCEPT !.upgrade = [k \in DOMAIN normalized |-> NotCalled]]
  /\ deduped = <<>>
  /\ filterPos = 1
  /\ filtered = <<>>
  /\ keptAt = <<>>
  /\ catalog = <<>>
  /\ catalogWrites = 0
  /\ health = NoHealth
  /\ healthWrites = 0
  /\ permuted = <<>>
  /\ dedupedPerm = <<>>
  /\ renormalized = <<>>
  /\ normalizedAgain = <<>>

SpecResolve == InitResolve /\ [][NextPool]_vars

\* ------------------------------------------------ one site, its crawl only
\* a shop whose competitions are under /win/, with path patterns
ShopSite ==
  [Site("shop.example", [ShopWin EXCEPT !.slashes = 1], "", FALSE, 1)
     EXCEPT !.allow = {Pattern(<<"win">>, TRUE)},
            !.block = {Pattern(<<"win", "terms">>, FALSE)}]

\* the same section without patterns, with a throttle of its own
SectionSite ==
  [Site("shop.example", [ShopWin EXCEPT !.slashes = 1], "", FALSE, 1)
     EXCEPT !.throttle_ms = 100]

\* a site given by its index URL alone
IndexOnlySite == Site("", Url(FALSE, "brand.example", <<>>), "", FALSE, 1)

CrawlConfigs ==
  {Loaded(<<>>, <<ShopSite>>), Loaded(<<>>, <<SectionSite>>), Loaded(<<>>, <<IndexOnlySite>>)}

InitCrawl ==
  /\ revision \in {"R2", "R3"}
  /\ pc = "load"
  /\ now = StartTime
  /\ ticks = 0
  /\ config \in CrawlConfigs
  /\ sources = NoSources
  /\ web = ResponseKinds
  /\ netCalls = 0
  /\ exitCode = -1
  /\ feedIdx = 1
  /\ siteIdx = 1
  /\ crawl = NoCrawl
  /\ raw = <<>>
  /\ fetchLog = <<>>
  /\ normalized = <<>>
  /\ upgraded = <<>>
  /\ canonicalized = <<>>
  /\ cursor = 0
  /\ results = <<>>
  /\ workers = <<>>
  /\ claims = <<>>
  /\ writes = <<>>
  /\ timers = <<>>
  /\ fetched = NoneFetched
  /\ deduped = <<>>
  /\ filterPos = 1
  /\ filtered = <<>>
  /\ keptAt = <<>>
  /\ catalog = <<>>
  /\ catalogWrites = 0
  /\ health = NoHealth
  /\ healthWrites = 0
  /\ permuted = <<>>
  /\ dedupedPerm = <<>>
  /\ renormalized = <<>>
  /\ normalizedAgain = <<>>

NextCrawl == LoadSources \/ CrawlIndex \/ CrawlPage

SpecCrawl == InitCrawl /\ [][NextCrawl]_vars

\* ----------------------------------------------------------------- claims
IsPermutationOf(s, t) ==
  /\ Len(s) = Len(t)
  /\ \E p \in Permutations(DOMAIN t) : s = Permute(t, p)

\* C4: dedupe returns the same set of surviving records for a list and for
\* any permutation of it
C4_DedupeOrderInvariant ==
  (pc = "filter" /\ IsPermutationOf(permuted, DedupeInput))
    => Range(deduped) = Range(dedupedPerm)

\* C5: in the list dedupe returns, no two records have the same cleaned
\* link and no two have the same lowercase (title, source) signature
C5_DedupeKeysUnique ==
  pc \in {"filter", "health", "done"} =>
    \A j, k \in DOMAIN deduped :
      j # k => /\ cleanUrl(deduped[j].link) # cleanUrl(deduped[k].link)
               /\ key2(deduped[j]) # key2(deduped[k])

\* C7: with DROP_PAST_DEADLINES enabled, no record freshnessFilter admitted
\* has a deadline before the time at which the filter looked at it, and the
\* catalog holds admitted records only
C7_NoPastDeadlineKept ==
  DROP_PAST_DEADLINES(revision) =>
    /\ Len(keptAt) = Len(filtered)
    /\ \A k \in DOMAIN filtered :
         filtered[k].deadline = NULL \/ filtered[k].deadline >= keptAt[k]
    /\ catalogWrites > 0 => Range(catalog) = Range(filtered)

C7_Witness ==
  /\ DROP_PAST_DEADLINES(revision)
  /\ catalogWrites > 0
  /\ \E k \in DOMAIN deduped : deduped[k].deadline # NULL /\ deduped[k] \notin Range(catalog)
  /\ \E k \in DOMAIN catalog : catalog[k].deadline # NULL

\* C1: in both pools every index below n is claimed by exactly one worker,
\* and its result slot is assigned exactly once, by that worker
C1_ClaimedOnceWrittenOnce ==
  pc \in {"upgrade", "canon"} =>
    /\ \A k \in DOMAIN claims :
         /\ Len(claims[k]) <= 1
         /\ Len(writes[k]) <= 1
         /\ writes[k] # <<>> => writes[k] = claims[k]
         /\ results[k].filled <=> writes[k] # <<>>
         \* the cursor passed k exactly when k was claimed
         /\ claims[k] # <<>> <=> k <= cursor
    /\ AllDone => \A k \in DOMAIN claims : Len(claims[k]) = 1 /\ Len(writes[k]) = 1

\* a pool has finished a list longer than it is wide, one worker having
\* claimed two indices while another lookup was still awaited
C1_Witness ==
  /\ pc = "canon"
  /\ AllDone
  /\ Len(upgraded) > CANON_CONCURRENCY
  /\ \E j, k \in DOMAIN claims : j < k /\ claims[j] = claims[k] /\ fetched.canon[k].called

\* what the pool of `stage` must hold at index k, given its input and what
\* the lookup for k answered
Derived(stage, items, k) ==
  IF fetched[stage][k].called THEN lookupResult(stage, items[k], fetched[stage][k].resp)
  ELSE items[k]

\* C2: the array each pool returns is as long as its input, has no empty
\* slot, and holds at k the record derived from the input's record at k
C2_OutputMirrorsInput ==
  /\ (pc \in {"upgrade", "canon"} /\ AllDone) => \A k \in DOMAIN results : results[k].filled
  /\ pc \in {"canon", "dedupe", "filter", "health", "done"} =>
       /\ Len(upgraded) = Len(normalized)
       /\ \A k \in DOMAIN upgraded : upgraded[k] = Derived("upgrade", normalized, k)
  /\ (revision = "R3" /\ pc \in {"dedupe", "filter", "health", "done"}) =>
       /\ Len(canonicalized) = Len(upgraded)
       /\ \A k \in DOMAIN canonicalized : canonicalized[k] = Derived("canon", upgraded, k)

\* canonicalizeAll has returned a list in which a later record's lookup
\* answered before an earlier one's, the two records differing
C2_Witness ==
  /\ pc = "dedupe"
  /\ Len(canonicalized) > CANON_CONCURRENCY
  /\ \E j, k \in DOMAIN canonicalized :
       /\ j < k
       /\ canonicalized[j] # canonicalized[k]
       /\ upgraded[j] # upgraded[k]
       /\ fetched.canon[j].called /\ fetched.canon[k].called

\* the canonical lookup of `link` failed: the fetch rejected (timeout,
\* transport error, a link that is no URL) or the page's canonical href
\* could not be parsed
canonFetchFailed(link, resp) ==
  \/ ~resp.ok
  \/ ~Parses(link)
  \/ resp.html /\ Truthy(resp.cand) /\ ~Parses(resp.cand)

\* C8: canonicalizeAll returns a record for every record it was given, and
\* where the canonical lookup failed the record's link is the cleaned link
\* the lookup was made for
C8_CanonicalFailureKeepsRecord ==
  (revision = "R3" /\ pc \in {"dedupe", "filter", "health", "done"}) =>
    /\ Len(canonicalized) = Len(upgraded)
    /\ \A k \in DOMAIN upgraded :
         (fetched.canon[k].called /\ canonFetchFailed(upgraded[k].link, fetched.canon[k].resp))
           => /\ canonicalized[k].link = cleanUrl(upgraded[k].link)
              /\ canonicalized[k].title = upgraded[k].title

\* canonicalizeAll has returned; one lookup was redirected and then hit a
\* canonical href that does not parse, another was rejected outright
C8_Witness ==
  /\ revision = "R3"
  /\ pc = "dedupe"
  /\ \E j, k \in DOMAIN upgraded :
       /\ fetched.canon[j].called /\ fetched.canon[j].resp.ok
       /\ canonFetchFailed(upgraded[j].link, fetched.canon[j].resp)
       /\ cleanUrl(fetched.canon[j].resp.url) # cleanUrl(upgraded[j].link)
       /\ fetched.canon[k].called /\ ~fetched.canon[k].resp.ok

\* the record upgradeAggregatorsToOriginals was given at k passes through
passesThrough(k) ==
  \/ host(normalized[k].link) \notin KNOWN_AGGREGATORS
  \/ fetched.upgrade[k].called /\ ~fetched.upgrade[k].resp.ok
  \/ fetched.upgrade[k].called
       /\ ~Truthy(findOriginalForAggregator(normalized[k].link, fetched.upgrade[k].resp))

\* C9: upgradeAggregatorsToOriginals returns a record for every record it
\* was given; the record is its input unchanged when the link is no
\* aggregator's, the page fetch failed or no candidate was found, and
\* otherwise differs from its input in link and source only
C9_UpgradePassThrough ==
  (revision = "R3" /\ pc \in {"canon", "dedupe", "filter", "health", "done"}) =>
    /\ Len(upgraded) = Len(normalized)
    /\ \A k \in DOMAIN normalized :
         /\ passesThrough(k) => upgraded[k] = normalized[k]
         /\ \A f \in {"id", "title", "createdAt", "deadline"} : upgraded[k][f] = normalized[k][f]
         /\ ~passesThrough(k) =>
              upgraded[k].link = findOriginalForAggregator(normalized[k].link,
                                                           fetched.upgrade[k].resp)

\* upgradeAggregatorsToOriginals has returned a list in which one
\* aggregator page could not be fetched and another gave an original
C9_Witness ==
  /\ revision = "R3"
  /\ pc = "canon"
  /\ \E j, k \in DOMAIN normalized :
       /\ fetched.upgrade[j].called /\ ~fetched.upgrade[j].resp.ok
       /\ upgraded[j] = normalized[j]
       /\ ~passesThrough(k)
       /\ upgraded[k].link # normalized[k].link
       /\ upgraded[k].source # normalized[k].source

\* C3: a run of R2 or R3 that loaded sources.json and has exited has written
\* the catalog and the health report, whichever fetches failed
C3_BothArtifactsWritten ==
  (revision \in {"R2", "R3"} /\ config.ok /\ exitCode # -1) =>
    /\ catalogWrites = 1
    /\ healthWrites = 1
    /\ raw = <<>> => (catalog = <<>> /\ health = NoHealth)

\* C6: no two records of the catalog R3 writes have the same id
C6_CatalogIdsUnique ==
  (revision = "R3" /\ catalogWrites > 0) =>
    \A j, k \in DOMAIN catalog : j # k => catalog[j].id # catalog[k].id

\* C10: while sources.json is missing or invalid no network request is made,
\* neither artifact is written, and the run does not exit with 0
C10_ConfigFailureAborts ==
  ~config.ok =>
    /\ netCalls = 0
    /\ catalogWrites = 0
    /\ healthWrites = 0
    /\ exitCode \in {-1, 1}

\* C15: with the clock held fixed, normalizeItem applied to its own output
\* returns that output, in every field
C15_NormalizeIdempotent ==
  pc \in {"second", "compared"} => renormalized = normalized

\* C16: two calls of normalizeItem on the same raw record return the same
\* record, whenever each call is made
C16_NormalizeDeterministic ==
  pc = "compared" => normalizedAgain = normalized

\* what C17 says normalizeItem makes of a raw createdAt at clock value `clock`
clampedToNow(t, clock) ==
  IF t = NULL THEN NULL
  ELSE IF t > clock + FUTURE_CREATEDAT_SKEW_MIN THEN clock
  ELSE t

C18_CatalogIdFollowsLink ==
  (revision \in {"R2", "R3"} /\ catalogWrites > 0) =>
    \A k \in DOMAIN catalog :
      catalog[k].id = IF Truthy(catalog[k].link) THEN LinkId(catalog[k].link)
                      ELSE Sha1Id(catalog[k].title, catalog[k].source)

rejectedByRule(item, clock, rev) ==
  \/ DROP_PAST_DEADLINES(rev) /\ item.deadline # NULL /\ item.deadline < clock
  \/ /\ item.deadline = NULL
     /\ item.createdAt # NULL
     /\ item.createdAt < clock - days(MAX_ITEM_AGE_DAYS(rev))

\* C20: each call of freshnessFilter rejects its record exactly when
\* DROP_PAST_DEADLINES is on and the deadline is before now, or the record has
\* no deadline and its createdAt is older than MAX_ITEM_AGE_DAYS; every other
\* record is appended to the kept ones
C20_FilterRejectsExactly ==
  [][ (pc = "filter" /\ filterPos' = filterPos + 1) =>
        IF rejectedByRule(deduped[filterPos], now, revision)
          THEN filtered' = filtered
          ELSE filtered' = Append(filtered, deduped[filterPos]) ]_vars

\* the filter has run over a list it rejected one record of for its age and
\* kept two of: one with a deadline and no createdAt, one with neither a
\* deadline nor an excessive age
C20_Witness ==
  /\ pc = "filter"
  /\ filterPos > Len(deduped)
  /\ \E j \in DOMAIN deduped :
       /\ deduped[j] \notin Range(filtered)
       /\ deduped[j].deadline = NULL
       /\ isVeryOld(deduped[j].createdAt, now, revision)
  /\ \E k \in DOMAIN filtered : filtered[k].deadline # NULL /\ filtered[k].createdAt = NULL
  /\ \E k \in DOMAIN filtered : filtered[k].deadline = NULL /\ filtered[k].createdAt # NULL

\* the records a fetch of the log gives when taken by itself: none when it
\* failed, else what its document holds at the time it was fetched
Expected(e) ==
  IF ~e.ok THEN <<>>
  ELSE CASE e.step = "feed" -> parseRSSFeed(e.feed, e.url, e.at, revision)
         [] e.step = "page" -> pageRecords(sources.sites[e.site], e.url, e.doc, e.at, revision)
         [] OTHER -> <<>>

RECURSIVE Flatten(_)
Flatten(log) ==
  IF log = <<>> THEN <<>> ELSE Expected(Head(log)) \o Flatten(Tail(log))

\* the fetches of one step, and of one step at one site, in the order made
Fetches(step) == SelectSeq(fetchLog, LAMBDA e : e.step = step)
FetchesAt(step, s) == SelectSeq(fetchLog, LAMBDA e : e.step = step /\ e.site = s)

\* the records main and the running crawlSite hold
Gathered == raw \o crawl.items

RECURSIVE Candidates(_, _)
\* the detail pages the fetched index pages of a site lead to
Candidates(site, idx) ==
  IF idx = <<>> THEN <<>>
  ELSE LET e == idx[Len(idx)]
           before == Candidates(site, SubSeq(idx, 1, Len(idx) - 1))
       IN IF e.ok
            THEN Unique(before \o candidateHrefs(site, IndexAnchors(site, e.page), revision))
            ELSE before

\* C11: once crawlSite has returned for a site, every index page of the site
\* was fetched whichever of them failed, every detail page that the fetched
\* index pages lead to was visited whichever of them failed, and the records
\* gathered from the sites are those of the pages that arrived
C11_CrawlFailuresSkipOnePage ==
  (revision \in {"R2", "R3"} /\ sources.ok /\ pc \in {"feeds", "sites", "normalize"}) =>
    /\ \A s \in DOMAIN sources.sites :
         s < siteIdx =>
           LET site == sources.sites[s]
               idx == FetchesAt("index", s)
               pages == FetchesAt("page", s)
           IN /\ Len(idx) = indexPages(site, revision)
              /\ \A k \in DOMAIN idx : idx[k].page = k
              /\ [k \in DOMAIN pages |-> pages[k].url] = Candidates(site, idx)
    /\ Len(Gathered) >= Len(Flatten(Fetches("page")))
    /\ SubSeq(Gathered, Len(Gathered) - Len(Flatten(Fetches("page"))) + 1, Len(Gathered))
         = Flatten(Fetches("page"))

\* crawlSite has returned records for a site one index page of which failed
\* before another arrived, and one detail page of which failed before
\* another gave a record
C11_Witness ==
  /\ revision = "R3"
  /\ pc = "normalize"
  /\ \E s \in DOMAIN sources.sites :
       LET idx == FetchesAt("index", s)
           pages == FetchesAt("page", s)
       IN /\ \E j, k \in DOMAIN idx : j < k /\ ~idx[j].ok /\ idx[k].ok
          /\ \E j, k \in DOMAIN pages :
               j < k /\ ~pages[j].ok /\ pages[k].ok /\ Expected(pages[k]) # <<>>
          /\ raw = Flatten(fetchLog)
          /\ raw # <<>>

\* C12: in R3 a feed whose fetch or parse failed gives no record and does not
\* end the run: every feed of sources.json is fetched in turn, then every
\* site, and the records gathered from the feeds are those of the feeds that
\* arrived
C12_FeedFailureSkipsOneFeed ==
  (revision = "R3" /\ sources.ok /\ pc \in {"feeds", "sites", "normalize"}) =>
    LET feeds == Fetches("feed")
    IN /\ exitCode = -1
       /\ Len(feeds) = feedIdx - 1
       /\ \A k \in DOMAIN feeds : feeds[k].url = sources.rss[k]
       /\ pc \in {"sites", "normalize"} => Len(feeds) = Len(sources.rss)
       /\ pc = "normalize" =>
            \A s \in DOMAIN sources.sites : FetchesAt("index", s) # <<>>
       /\ Len(Gathered) >= Len(Flatten(feeds))
       /\ SubSeq(Gathered, 1, Len(Flatten(feeds))) = Flatten(feeds)
       /\ Len(Gathered) = Len(Flatten(feeds)) + Len(Flatten(Fetches("page")))

\* the fetching is over; the first feed failed, the second gave a record and
\* so did a site
C12_Witness ==
  /\ revision = "R3"
  /\ pc = "normalize"
  /\ LET feeds == Fetches("feed")
     IN /\ Len(feeds) = 2
        /\ ~feeds[1].ok
        /\ feeds[2].ok
        /\ Expected(feeds[2]) # <<>>
        /\ Flatten(Fetches("page")) # <<>>
        /\ Len(raw) >= 2

\* C13: every run of R3 comes to its end, whatever the servers do
C13_RunFinishes ==
  (revision = "R3") => <>(exitCode # -1)

\* C14: a lookup answered with a status outside 200-299 counts as failed: the
\* Aggregator Resolver passes the record through, and the Canonical Resolver
\* keeps the cleaned link the lookup was made for
C14_ErrorStatusIsFailure ==
  /\ (revision = "R3" /\ pc \in {"canon", "dedupe"}) =>
       \A k \in DOMAIN normalized :
         (fetched.upgrade[k].called /\ ~IsSuccess(fetched.upgrade[k].resp))
           => upgraded[k] = normalized[k]
  /\ (revision = "R3" /\ pc = "dedupe") =>
       \A k \in DOMAIN upgraded :
         (fetched.canon[k].called /\ ~IsSuccess(fetched.canon[k].resp))
           => /\ canonicalized[k].link = cleanUrl(upgraded[k].link)
              /\ canonicalized[k].source = upgraded[k].source

\* C21: the written catalog is in descending order of createdAt, adjacent
\* records of equal createdAt are in ascending order of title, and the
\* catalog is the same in whatever order the kept records arrived
C21_CatalogOrderDetermined ==
  (revision \in {"R2", "R3"} /\ catalogWrites > 0) =>
    /\ \A k \in 1..(Len(catalog) - 1) :
         /\ SortTime(catalog[k]) >= SortTime(catalog[k + 1])
         /\ SortTime(catalog[k]) = SortTime(catalog[k + 1])
              => localeCompare(catalog[k].title, catalog[k + 1].title) <= 0
    /\ \A p \in Permutations(DOMAIN filtered) :
         sortListings(Permute(filtered, p), revision) = catalog

RECURSIVE SumOver(_, _)
\* the sum of f over the keys in S
SumOver(f, S) ==
  IF S = {} THEN 0
  ELSE LET key == CHOOSE x \in S : TRUE IN f[key] + SumOver(f, S \ {key})

\* C30: in every health report R3 writes, the counts satisfy
\* raw = normalized = upgraded = canonicalized >= deduped >= kept, the
\* per-source counts sum to kept, and kept is the number of records of the
\* catalog the same run wrote
C30_HealthCountsConsistent ==
  (revision = "R3" /\ healthWrites > 0) =>
    /\ health.raw = health.normalized
    /\ health.normalized = health.upgraded
    /\ health.upgraded = health.canonicalized
    /\ health.canonicalized >= health.deduped
    /\ health.deduped >= health.kept
    /\ SumOver(health.perSource, DOMAIN health.perSource) = health.kept
    /\ catalogWrites = 1
    /\ health.kept = Len(catalog)

\* a health report has been written by a run in which dedupe merged two
\* records and freshnessFilter rejected another
C30_Witness ==
  /\ revision = "R3"
  /\ healthWrites > 0
  /\ health.raw > health.deduped
  /\ health.deduped > health.kept
  /\ health.kept >= 1
  /\ DOMAIN health.perSource # {}

\* what C26 calls a degenerate candidate: its path is root or one segment
\* and its host is not the final URL's
degenerate(finalUrl, cand) == Len(cand.path) <= 1 /\ host(cand) # host(finalUrl)

\* C26: for every canonical lookup that was answered, the record's link is
\* the page's declared canonical URL when one is declared in an HTML answer
\* and is not degenerate, and the cleaned final URL in every other case
C26_CanonicalUnlessDegenerate ==
  (revision = "R3" /\ pc \in {"dedupe", "filter", "health", "done"}) =>
    \A k \in DOMAIN upgraded :
      (fetched.canon[k].called /\ fetched.canon[k].resp.ok) =>
        LET resp == fetched.canon[k].resp
            finalUrl == cleanUrl(IF Truthy(resp.url) THEN resp.url ELSE upgraded[k].link)
            declared == resp.html /\ Truthy(resp.cand)
        IN canonicalized[k].link =
             IF declared /\ ~degenerate(finalUrl, cleanUrl(resp.cand))
               THEN cleanUrl(resp.cand)
               ELSE finalUrl

\* C23: of two records with one cleaned link of which exactly one has a
\* createdAt, the one without is not in dedupe's result, and where the two
\* are the whole list the result is the one with the createdAt
C23_DatedRecordSurvives ==
  (revision = "R3" /\ pc = "filter") =>
    \A j, k \in DOMAIN canonicalized :
      ( /\ Truthy(canonicalized[j].link)
        /\ cleanUrl(canonicalized[j].link) = cleanUrl(canonicalized[k].link)
        /\ canonicalized[j].createdAt = NULL
        /\ canonicalized[k].createdAt # NULL )
        => /\ canonicalized[j] \notin Range(deduped)
           /\ Len(canonicalized) = 2 => deduped = <<canonicalized[k]>>

\* the key of dedupe's first pass
linkKey(x) == cleanUrl(x.link)

\* the first record of maximal score among the records of items with the key
firstOfMaximalScore(items, keyOf(_), key) ==
  LET group == SelectSeq(items, LAMBDA x : keyOf(x) = key)
      top == CHOOSE k \in DOMAIN group :
               /\ \A j \in DOMAIN group : scorePrimary(group[j]) <= scorePrimary(group[k])
               /\ \A j \in 1..(k - 1) : scorePrimary(group[j]) < scorePrimary(group[k])
  IN group[top]

\* one pass as C24 has it: per key the first record of maximal score, the
\* keys in the order they first occur
keepFirstOfMaximalScore(items, keyOf(_)) ==
  LET first == {k \in DOMAIN items : \A j \in 1..(k - 1) : keyOf(items[j]) # keyOf(items[k])}
      nth(n) == CHOOSE k \in first : Cardinality({j \in first : j < k}) = n - 1
  IN [n \in 1..Cardinality(first) |-> firstOfMaximalScore(items, keyOf, keyOf(items[nth(n)]))]

\* C24: dedupe keeps, of the records with one cleaned link and then of the
\* records with one signature, a record of maximal score, the first of them
\* in the input where several have that score
C24_FirstOfMaximalScoreSurvives ==
  (revision = "R3" /\ pc = "filter") =>
    LET withLinks == SelectSeq(canonicalized, LAMBDA x : Truthy(x.link))
    IN Range(deduped) =
         Range(keepFirstOfMaximalScore(keepFirstOfMaximalScore(withLinks, linkKey), key2))

\* the link leads off the page's host to a host that is not ignored
leadsOut(u, pageUrl) == Parses(u) /\ host(u) # host(pageUrl) /\ ~isIgnoredHost(host(u))

\* C27: where the page of a known aggregator arrived and none of its anchors
\* qualifies as the original, the record's link becomes the first URL of the
\* page's text that leads off the page to a host not ignored, and the record
\* stays as it was only when the text holds no such URL
C27_TextFallbackOnEveryAggregator ==
  (revision = "R3" /\ pc \in {"canon", "dedupe"}) =>
    \A k \in DOMAIN normalized :
      LET link == normalized[k].link
          resp == fetched.upgrade[k].resp
          inText == SelectSeq(resp.text, LAMBDA u : leadsOut(u, link))
      IN ( /\ host(link) \in KNOWN_AGGREGATORS
           /\ fetched.upgrade[k].called
           /\ resp.ok
           /\ \A a \in Range(resp.anchors) : ~leadsOut(a.href, link) )
           => IF inText # <<>>
                THEN upgraded[k].link = cleanUrl(inText[1])
                ELSE upgraded[k] = normalized[k]

\* C29: a link the Aggregator Resolver put in place of a record's link is
\* outside the aggregator page's domain, with or without "www.", and its
\* host is not ignored
C29_UpgradeLeavesAggregatorDomain ==
  (revision = "R3" /\ pc \in {"canon", "dedupe"}) =>
    \A k \in DOMAIN normalized :
      upgraded[k].link # normalized[k].link =>
        /\ sourceFromLink(upgraded[k].link) # sourceFromLink(normalized[k].link)
        /\ ~isIgnoredHost(host(upgraded[k].link))

\* the site crawlSite is working on
crawledSite == sources.sites[siteIdx]

\* C22: every candidate link R3's crawlSite keeps has a path that no block
\* pattern of the site matches and, where the site has allow patterns, that
\* one of them matches; without allow patterns the path is the path of the
\* index URL or lies under it
C22_KeptLinksPassPathRules ==
  (revision = "R3" /\ pc = "sites" /\ crawl.phase = "pages") =>
    \A k \in DOMAIN crawl.hrefs :
      LET href == crawl.hrefs[k]
          site == crawledSite
      IN /\ \A rx \in site.block : ~rxTest(rx, href)
         /\ site.allow # {} => \E rx \in site.allow : rxTest(rx, href)
         /\ site.allow = {} => BeginsPath(site.index.path, href.path)

\* C25: with a non-zero throttle, a delay runs between any two consecutive
\* detail-page fetches of a site
C25_DelayBetweenPageFetches ==
  \A s \in 1..Len(sources.sites) :
    LET pages == FetchesAt("page", s)
    IN throttle(sources.sites[s], revision) # 0 =>
         \A j \in 1..(Len(pages) - 1) :
           pages[j].slept.after \/ pages[j + 1].slept.before

\* the links of the index pages fetched so far, in the order of discovery
RECURSIVE discovered(_, _)
discovered(site, fetches) ==
  IF fetches = <<>> THEN <<>>
  ELSE LET e == Head(fetches)
           found == IF e.ok THEN IndexAnchors(site, e.page) ELSE <<>>
       IN [k \in DOMAIN found |-> cleanUrl(found[k])] \o discovered(site, Tail(fetches))

FirstAt(seq, x) == CHOOSE k \in DOMAIN seq : seq[k] = x /\ \A j \in 1..(k - 1) : seq[j] # x

\* C28: the candidate links R3's crawlSite keeps are on the site's own host
\* (that of its index URL where no host is configured), pairwise distinct,
\* and in the order of their discovery
C28_CandidatesSameSiteUniqueOrdered ==
  (revision = "R3" /\ pc = "sites" /\ crawl.phase = "pages") =>
    LET site == crawledSite
        seen == discovered(site, FetchesAt("index", siteIdx))
        own == IF site.host # "" THEN site.host ELSE site.index.dom
    IN /\ \A k \in DOMAIN crawl.hrefs :
            /\ Parses(crawl.hrefs[k])
            /\ crawl.hrefs[k].dom = own
            /\ crawl.hrefs[k] \in Range(seen)
       /\ \A i, j \in DOMAIN crawl.hrefs :
            i < j => /\ crawl.hrefs[i] # crawl.hrefs[j]
                     /\ FirstAt(seen, crawl.hrefs[i]) < FirstAt(seen, crawl.hrefs[j])

====
